---- MODULE Spec2Model ----
(***************************************************************************)
(* Model of the real-time transcription pipeline's control path:          *)
(*   OptimizedTranscriptionService  (src/src/utils/enhancedTranscription.ts*)
(*                                   lines 470-851)                         *)
(*   EnhancedTranscriptionManager   (same file, lines 47-428)               *)
(*   RealtimeTranscriptionProcessor (src/src/utils/audioWorkletManager.ts) *)
(*   monitorStreamHealth            (src/unnamed/part_003)                  *)
(*                                                                         *)
(* The control path is one JavaScript event loop.  One action is one task  *)
(* of that loop: a timer callback, a socket event, a promise settling or a *)
(* call by the consumer, run to its next real suspension point together    *)
(* with the micro-task continuations it releases.  Timers carry no         *)
(* duration: a pending timer may fire at any later task, so every order of *)
(* socket and timer events is explored.                                    *)
(***************************************************************************)
EXTENDS Integers, Sequences, FiniteSets, TLC

\* ------------------------------------------------------------------ bounds
\* WebSocket objects one run may create.
MaxSock == 4
\* config.maxReconnectAttempts as the run configures the service (the code's
\* default is 5, enhancedTranscription.ts line 496; any value may be passed).
MaxReconnectAttempts == 1
\* start() calls the client of a bare service makes in one run.
MaxStarts == 1
\* WebSocket objects one run of a manager may create.
MaxMgrSock == 2
\* OptimizedTranscriptionService objects one manager may construct in one run.
MaxSvc == 2
\* Stream recoveries of the manager under way at one time.
MaxRecoveries == 1
\* Frames the worklet delivers to a processor in one run.
MaxFrames == 3
\* Tracks of a MediaStream.
MaxTracks == 2
\* Frames delivered to a processor that runs beside a quality analyzer.
MaxGateFrames == 2
\* Messages and results handled in one run.
MaxResults == 3
\* process() calls of the audio thread in one run.
MaxCalls == 4
\* WebSocket objects of a service whose HD chain may fail, in one run.
MaxHdSock == 2

\* ------------------------------------------------------- program constants
\* setInterval period of startConnectionMonitoring, ms.
HeartbeatIntervalMs == 10000
\* threshold of timeSinceLastHeartbeat, ms.
HeartbeatTimeoutMs == 30000

VARIABLES
    svc,    \* the OptimizedTranscriptionService objects, by id
    sock,   \* the WebSocket objects, by id, each with the connectWebSocket() call that made it
    nsock,  \* WebSocket objects created so far
    proc,   \* the RealtimeTranscriptionProcessor objects, by the id of the start() call that made them
    mgr,    \* the EnhancedTranscriptionManager and its timers
    obs,    \* what the client of a bare service has observed (callbacks, return values)
    task,   \* what the last task of the event loop did that its caller or the consumer can see
    rtp,    \* a RealtimeTranscriptionProcessor's frame handling: buffer, chunk queue, times
    vad,    \* its VoiceActivityDetector
    clock,  \* Date.now(), ms
    wire,   \* the binary frames sent on the service's socket: only sendAudioData()
            \* (enhancedTranscription.ts lines 783-791) sends any, and no code calls it
    pcm,    \* a sample on its way through a Float32 to PCM converter
    strm,   \* a MediaStream and what validateAudioStream() said of it
    qa,     \* the manager's AudioQualityAnalyzer and the score it last gave
    rx,     \* the transcript results path: last message, what was delivered, the transcripts kept
    wk      \* the AudioProcessor worklet: its sample buffer, index and the frames it posted

\* The control path and all variables.
ctl == <<svc, sock, nsock, proc, mgr, obs, task>>
vars == <<svc, sock, nsock, proc, mgr, obs, task, rtp, vad, clock, wire, pcm, strm, qa, rx, wk>>

Svcs == 1..MaxSvc
Socks == 1..MaxSock

\* A task that was no interval callback, called no onError and returned from no initialize().
\* hb: the service of whose monitoring interval the task was a callback (0: of
\* none); the callback found isConnected
\* and the socket open as recorded, sent a KeepAlive (sent), measured an age of
\* lastHeartbeatTime over the threshold (over) and called reconnect() (forced).
Quiet ==
    [ hb |-> 0, isConnected |-> FALSE, open |-> FALSE, sent |-> FALSE,
      over |-> FALSE, forced |-> FALSE,
      errors |-> 0,             \* calls of the manager's onErrorCallback
      timer |-> "none",         \* the timer of the manager whose callback ran
      monitor |-> 0,            \* the stream monitor whose checkHealth() ran (0: none)
      healthy |-> FALSE,        \* and whether it found its stream healthy
      recovery |-> "none",      \* "failed": a reconnect() of the manager ended in its catch
      releasedBy |-> "none",    \* "processor": a processor's cleanup() stopped and removed, not
                                \* under a stop() of the manager, the tracks of the stream the
                                \* owner (manager or client) holds
      hd |-> "none",            \* what applyHDProcessing() gave a start() call of the task:
                                \* the "processed" stream, or the "original" passed through
      threw |-> FALSE,          \* new WebSocket() threw in that call
      initReturned |-> "none" ] \* the value an initialize() call returned

\* The whole state as one value: handlers are functions from state to state.
W == [svc |-> svc, sock |-> sock, nsock |-> nsock, proc |-> proc, mgr |-> mgr,
      obs |-> obs, task |-> Quiet]

Becomes(w) ==
    /\ svc' = w.svc
    /\ sock' = w.sock
    /\ nsock' = w.nsock
    /\ proc' = w.proc
    /\ mgr' = w.mgr
    /\ obs' = w.obs
    /\ task' = w.task
    /\ UNCHANGED <<rtp, vad, clock, wire, pcm, strm, qa, rx, wk>>

Min(a, b) == IF a < b THEN a ELSE b

\* ------------------------------------------------------------ initial state
\* Field initialisers of OptimizedTranscriptionService.
NewService ==
    [ websocket |-> 0,                   \* 0 is null
      isConnected |-> FALSE,
      reconnectAttempts |-> 0,
      connectionCheckInterval |-> FALSE, \* the handle is non-null
      intervals |-> 0,                   \* live setInterval timers of this service
      audioProcessor |-> 0,              \* 0 is null
      hdProcessor |-> FALSE,
      mediaStream |-> FALSE,             \* non-null
      hbTicks |-> 0,                     \* monitoring periods since lastHeartbeatTime was set, kept while
                                         \* isConnected: the timestamp is read only then (line 728) and
                                         \* is set anew whenever isConnected becomes true (lines 611-613)
      sinceMessage |-> 0,                \* monitoring periods since the socket opened or its last
                                         \* inbound message was handled, kept as hbTicks is
      reconnectTimers |-> 0,             \* pending reconnect-delay timers
      managed |-> FALSE,                 \* onConnectionStateChange is the manager's handler
      \* history of the session, for the properties
      gaveUp |-> FALSE,                  \* attemptReconnection found the attempts used up
      sinceOpen |-> 0 ]                  \* timer-driven reconnect() calls since the last onopen or start()

NoSocket ==
    [ owner |-> 0, rs |-> "NONE", res |-> "none", timer |-> FALSE,
      by |-> "none", caller |-> "none", pc |-> "none", p |-> 0, ret |-> "none",
      processedStream |-> "none" ]  \* of the start() call: "processed" by the HD chain,
                                    \* or the "original" stream passed through

\* A RealtimeTranscriptionProcessor: wm is the AudioWorkletManager it holds (0 is
\* null; a manager is named by the call that made it), bound the managers whose
\* worklet node is connected to a source and delivers frames.
\* ready are the managers whose initialize() gave them a worklet node.
\* dead are the managers cleanup() released while their initialize() was in flight.
\* mediaStream is the stream start() was given last, until cleanup(): "none", the
\* "processed" stream of an HD chain, the "original" stream the owner holds, or an
\* "old" stream the owner held before it got a new one.
NoProcessor ==
    [ wm |-> 0, ready |-> {}, bound |-> {}, dead |-> {}, isProcessing |-> FALSE,
      mediaStream |-> "none" ]

\* ------------------------------------------------------------- the service
EnableHD == TRUE
EnableRealtime == TRUE

\* WebSocket.close(): an open or connecting socket starts its closing handshake;
\* its close event comes later, as a task of its own.
WsClose(rs) == IF rs \in {"CONNECTING", "OPEN"} THEN "CLOSING" ELSE rs

\* disconnectWebSocket()
DisconnectWebSocket(w, i) ==
    LET s == w.svc[i].websocket IN
    IF s = 0 THEN w
    ELSE [w EXCEPT !.sock[s].rs = WsClose(@), !.svc[i].websocket = 0]

\* RealtimeTranscriptionProcessor.cleanup() (audioWorkletManager.ts lines
\* 1000-1016): stopProcessing() of the manager held, the tracks of
\* this.mediaStream stopped and removed by cleanupAudioResources()
\* (errorHandling.ts lines 82-87), fields nulled.
ProcCleanup(w, p) ==
    [w EXCEPT !.proc[p].bound = @ \ {w.proc[p].wm},
              !.proc[p].ready = @ \ {w.proc[p].wm},
              !.proc[p].dead = @ \cup ({w.proc[p].wm} \ (w.proc[p].ready \cup {0})),
              !.proc[p].wm = 0,
              !.proc[p].mediaStream = "none",
              !.task.releasedBy = IF w.proc[p].mediaStream = "original"
                                  THEN "processor" ELSE @]

\* The owner of the stream gets a new one: the processors that hold the stream
\* it had hold an old stream.
NewStream(w) ==
    [w EXCEPT !.proc = [p \in Socks |->
                           IF @[p].mediaStream = "original"
                           THEN [@[p] EXCEPT !.mediaStream = "old"] ELSE @[p]]]

\* RealtimeTranscriptionProcessor.stop()
ProcStop(w, p) == ProcCleanup([w EXCEPT !.proc[p].isProcessing = FALSE], p)

\* OptimizedTranscriptionService.stop()
SvcStop(w, i) ==
    LET w1 == IF w.svc[i].connectionCheckInterval
              THEN [w EXCEPT !.svc[i].intervals = @ - 1,
                             !.svc[i].connectionCheckInterval = FALSE]
              ELSE w
        w2 == IF w1.svc[i].audioProcessor # 0
              THEN [ProcStop(w1, w1.svc[i].audioProcessor) EXCEPT !.svc[i].audioProcessor = 0]
              ELSE w1
        w3 == [w2 EXCEPT !.svc[i].hdProcessor = FALSE]
        w4 == DisconnectWebSocket(w3, i)
    IN  [w4 EXCEPT !.svc[i].isConnected = FALSE, !.svc[i].hbTicks = 0,
                   !.svc[i].sinceMessage = 0,
                   !.svc[i].mediaStream = FALSE]

\* connectWebSocket(), up to the promise it returns: the new socket replaces
\* this.websocket, its handlers are bound, the 10 s timer is set.
ConnectWebSocket(w, i, by, caller) ==
    LET s == w.nsock + 1 IN
    [w EXCEPT !.nsock = s,
              !.svc[i].websocket = s,
              !.sock[s] = [ owner |-> i, rs |-> "CONNECTING", res |-> "pending",
                            timer |-> TRUE, by |-> by, caller |-> caller, pc |-> "connect",
                            p |-> 0, ret |-> "none", processedStream |-> "none" ]]

\* startConnectionMonitoring(): a new interval; the handle is overwritten.
StartConnectionMonitoring(w, i) ==
    [w EXCEPT !.svc[i].intervals = @ + 1, !.svc[i].connectionCheckInterval = TRUE]

\* reconnect(), up to its await of connectWebSocket().
SvcReconnect(w, i) == ConnectWebSocket(DisconnectWebSocket(w, i), i, "reconnect", "none")

\* attemptReconnection()
AttemptReconnection(w, i) ==
    IF w.svc[i].reconnectAttempts < MaxReconnectAttempts
    THEN [w EXCEPT !.svc[i].reconnectAttempts = @ + 1,
                   !.svc[i].reconnectTimers = @ + 1]
    ELSE [SvcStop(w, i) EXCEPT !.svc[i].gaveUp = TRUE]

\* ------------------------------------------------------------- the manager
\* Field initialisers of EnhancedTranscriptionManager (lines 48-57), its timers,
\* and the calls of the consumer.  The manager's own audioProcessor, hdProcessor
\* and accuracyValidator stay null: nothing assigns the first two and the
\* validator is off by default (line 74).
NewManager ==
    [ transcriptionService |-> 0,        \* 0 is null
      streamMonitor |-> 0,               \* 0 is null, else the monitor whose clear function is held
      mediaStream |-> FALSE,             \* non-null
      qualityAnalyzer |-> FALSE,         \* non-null
      isActive |-> FALSE,
      connectionStatus |-> FALSE,        \* metrics.connectionStatus
      nsvc |-> 0,                        \* services constructed so far
      monitors |-> {},                   \* live intervals of monitorStreamHealth, named by the
                                         \* service whose start() they followed
      consecutiveFailures |-> [i \in Svcs |-> 0],
      metricsIntervals |-> 0,            \* live intervals of startMetricsCollection
      recoveryTimers |-> 0,              \* pending 2 s timers of handleStreamDisconnection
      updateTimers |-> 0,                \* pending 100 ms timers of updateOptions
      acquiring |-> [c \in {"init", "reinit"} |-> 0],
                                         \* initialize() calls awaiting getAudioStream(), by caller:
                                         \* the consumer, or the timer of updateOptions
      recovering |-> 0,                  \* reconnect() calls awaiting getAudioStream()
      current |-> {},                    \* the services whose initialize() call has, as its
                                         \* audioSource, the stream this.mediaStream is now: the
                                         \* monitor named by such a service watches that stream
      recovered |-> FALSE,               \* the last reconnect() ended with its service restarted
                                         \* (line 250), and no stop() or initialize() came since
      \* the consumer's view of the manager, for the properties
      phase |-> "new" ]                  \* new; initializing; active or failed: initialize()
                                         \* returned true or false; layered: initialize() was
                                         \* called on an active manager; overlapped: it was called
                                         \* during another call of it; stopped: stop() returned;
                                         \* aborted: stop() returned during an initialize() call

MAX_CONSECUTIVE_FAILURES == 3

\* this.onErrorCallback(...)
OnError(w) == [w EXCEPT !.task.errors = @ + 1]

\* The catch of the manager's reconnect() (lines 251-254)
RecoveryFailed(w) == [OnError(w) EXCEPT !.task.recovery = "failed"]

\* EnhancedTranscriptionManager.stop(), which is cleanup() too (lines 375-427).
\* It stops the tracks of the stream itself (line 418): what the processor of
\* its service releases under this call is released by the manager.
MgrStop(w) ==
    LET m  == w.mgr
        w1 == [w EXCEPT !.mgr.isActive = FALSE,
                        !.mgr.monitors = @ \ {m.streamMonitor},
                        !.mgr.consecutiveFailures =
                            [j \in Svcs |-> IF j = m.streamMonitor THEN 0 ELSE @[j]],
                        !.mgr.streamMonitor = 0]
        w2 == IF m.transcriptionService # 0
              THEN [SvcStop(w1, m.transcriptionService) EXCEPT !.mgr.transcriptionService = 0]
              ELSE w1
    IN  [w2 EXCEPT !.mgr.qualityAnalyzer = FALSE, !.mgr.mediaStream = FALSE,
                   !.mgr.current = {}, !.mgr.recovered = FALSE,
                   !.task.releasedBy = w.task.releasedBy]

\* The initialize() calls of the consumer that have not returned.
InitCallsInFlight(w) ==
    w.mgr.acquiring["init"]
        + Cardinality({ s \in Socks : w.sock[s].caller = "init"
                                        /\ w.sock[s].pc \in {"connect", "processor"} })

\* initialize() after its await of service.start() (lines 141-160); i is the
\* service it started, whose stream the new monitor watches.
InitializeReturn(w, i, caller, val) ==
    LET byConsumer == caller = "init" /\ w.mgr.phase = "initializing" IN
    IF val
    THEN [w EXCEPT !.mgr.streamMonitor = i,
                   !.mgr.monitors = @ \cup {i},
                   !.mgr.isActive = TRUE,
                   !.mgr.metricsIntervals = @ + 1,
                   !.mgr.phase = IF byConsumer THEN "active" ELSE @,
                   !.task.initReturned = "true"]
    ELSE [MgrStop(w) EXCEPT !.mgr.phase = IF byConsumer THEN "failed" ELSE @,
                            !.task.initReturned = "false"]

\* The caller of start() resumes with its result, in the same task: the client of
\* a bare service, initialize() called by the consumer or by the timer of
\* updateOptions, or the manager's reconnect() (lines 245-254).
CallerResumes(w, caller, i, val) ==
    CASE caller = "client" ->
            [w EXCEPT !.obs.startResult = IF val THEN "true" ELSE "false",
                      !.obs.phase = IF val \/ @ = "stopped" THEN @ ELSE "idle"]
      [] caller \in {"init", "reinit"} -> InitializeReturn(w, i, caller, val)
      [] caller = "recover" -> IF val THEN [w EXCEPT !.mgr.recovered = TRUE]
                               ELSE RecoveryFailed(w)
      [] OTHER -> w

\* start() returns val (line 545, or 549 after the catch ran stop()).
StartReturn(w, s, val) ==
    CallerResumes([w EXCEPT !.sock[s].ret = IF val THEN "true" ELSE "false",
                            !.sock[s].pc = "done"],
                  w.sock[s].caller, w.sock[s].owner, val)

\* RealtimeTranscriptionProcessor.start() by call c, up to its await of
\* workletManager.initialize() (lines 766-796).  syncOk: the stream validates and
\* an AudioContext can be made; otherwise the catch runs cleanup() and start()
\* returns false at once, this.mediaStream being what it was (line 776 comes
\* after the validation).
ProcStartSync(w, p, c, stream, syncOk) ==
    IF syncOk
    THEN [w EXCEPT !.proc[p].wm = c, !.proc[p].mediaStream = stream,
                   !.sock[c].pc = "processor", !.sock[c].p = p]
    ELSE [ProcCleanup(w, p) EXCEPT !.sock[c].pc = "procFailed", !.sock[c].p = p]

\* AudioWorkletManager.initialize() of manager c gives it a worklet node iff the
\* module loaded and cleanup() has not nulled its audioContext meanwhile
\* (audioWorkletManager.ts lines 20-160).
WorkletInitialized(w, p, c, loaded) == loaded /\ c \notin w.proc[p].dead

\* RealtimeTranscriptionProcessor.start() by call c, from the await to its return
\* (lines 796-827): TRUE iff it returns true.  startProcessing() runs on the
\* manager the processor holds now, which needs a worklet node.
ProcStartOk(w, p, c, loaded) ==
    /\ WorkletInitialized(w, p, c, loaded)
    /\ w.proc[p].wm # 0
    /\ w.proc[p].wm \in (w.proc[p].ready \cup {c})

ProcStartAsync(w, p, c, loaded) ==
    LET w1 == IF WorkletInitialized(w, p, c, loaded)
              THEN [w EXCEPT !.proc[p].ready = @ \cup {c}]
              ELSE [w EXCEPT !.proc[p].dead = @ \ {c}]
    IN  IF ProcStartOk(w, p, c, loaded)
        THEN [w1 EXCEPT !.proc[p].bound = @ \cup {w.proc[p].wm},
                        !.proc[p].isProcessing = TRUE]
        ELSE ProcCleanup(w1, p)

\* start() after connectWebSocket() settled with val (lines 529-550), and
\* reconnect() after it settled (lines 770-773).
AfterConnect(w, s, val, syncOk) ==
    LET i == w.sock[s].owner IN
    IF w.sock[s].by = "start"
    THEN IF ~val
         THEN StartReturn(SvcStop(w, i), s, FALSE)
         ELSE IF EnableRealtime
              THEN LET w1 == ProcStartSync([w EXCEPT !.svc[i].audioProcessor = s,
                                                     !.proc[s] = NoProcessor],
                                           s, s, w.sock[s].processedStream, syncOk)
                   IN  IF syncOk THEN w1 ELSE StartReturn(SvcStop(w1, i), s, FALSE)
              ELSE StartReturn(StartConnectionMonitoring(w, i), s, TRUE)
    ELSE IF w.svc[i].mediaStream /\ w.svc[i].audioProcessor # 0
         THEN ProcStartSync(w, w.svc[i].audioProcessor, s, "original", syncOk)
         ELSE [w EXCEPT !.sock[s].pc = "done"]

\* resolve(val) of the promise of connectWebSocket() call s: the first call settles it.
\* The 10 s timer of a settled call can only log: it is dropped with the settling.
Resolve(w, s, val, syncOk) ==
    IF w.sock[s].res = "pending"
    THEN AfterConnect([w EXCEPT !.sock[s].res = IF val THEN "true" ELSE "false",
                                !.sock[s].timer = FALSE],
                      s, val, syncOk)
    ELSE w

\* start(stream), up to its first real suspension (lines 505-528).  valid: the
\* stream validates.  throws: new WebSocket() throws, so connectWebSocket()
\* resolves false at once (lines 640-643).  hd: the HD chain is built;
\* applyHDProcessing() (lines 553-584) returns its stream, or the stream it
\* was given when the chain cannot be built.
ApplyHDProcessing(hd) == IF hd THEN "processed" ELSE "original"

SvcStart_m(w, i, caller, valid, hd, throws) ==
    LET w0 == [w EXCEPT !.svc[i].gaveUp = FALSE,
                        !.svc[i].sinceOpen = 0,
                        !.task.hd = IF valid /\ EnableHD THEN ApplyHDProcessing(hd) ELSE @,
                        !.task.threw = valid /\ throws]
    IN  IF ~valid \/ throws \/ (EnableHD /\ ~hd)
        THEN CallerResumes(SvcStop([w0 EXCEPT !.svc[i].mediaStream = valid,
                                              !.svc[i].hdProcessor = valid /\ EnableHD],
                                   i),
                           caller, i, FALSE)
        ELSE LET w1 == ConnectWebSocket([w0 EXCEPT !.svc[i].mediaStream = TRUE,
                                                   !.svc[i].hdProcessor = EnableHD],
                                        i, "start", caller)
             IN  [w1 EXCEPT !.sock[w1.nsock].processedStream =
                                IF EnableHD THEN ApplyHDProcessing(hd) ELSE "original"]
SvcStart(w, i, caller, valid, hd, throws) ==
    LET w0 == [w EXCEPT !.svc[i].gaveUp = FALSE,
                        !.svc[i].sinceOpen = 0,
                        !.task.hd = IF valid /\ EnableHD THEN ApplyHDProcessing(hd) ELSE @,
                        !.task.threw = valid /\ throws]
    IN  IF ~valid \/ throws
        THEN CallerResumes(SvcStop([w0 EXCEPT !.svc[i].mediaStream = valid,
                                              !.svc[i].hdProcessor = valid /\ EnableHD],
                                   i),
                           caller, i, FALSE)
        ELSE LET w1 == ConnectWebSocket([w0 EXCEPT !.svc[i].mediaStream = TRUE,
                                                   !.svc[i].hdProcessor = EnableHD],
                                        i, "start", caller)
             IN  [w1 EXCEPT !.sock[w1.nsock].processedStream =
                                IF EnableHD THEN ApplyHDProcessing(hd) ELSE "original"]

\* ------------------------------------------------- tasks of the event loop
\* Whether settling call s with val starts a processor, whose synchronous part
\* may fail: only then is that outcome an input of the task.
StartsProcessor(w, s, val) ==
    IF w.sock[s].by = "start"
    THEN val /\ EnableRealtime
    ELSE w.svc[w.sock[s].owner].mediaStream /\ w.svc[w.sock[s].owner].audioProcessor # 0

SyncOutcomes(w, s, val) ==
    IF w.sock[s].res = "pending" /\ StartsProcessor(w, s, val) THEN BOOLEAN ELSE {TRUE}

\* this.onConnectionStateChange(c): the client's callback, or the manager's
\* handleConnectionStateChange (lines 214-217).
ConnectionCallback(w, i, c) ==
    IF w.svc[i].managed
    THEN [w EXCEPT !.mgr.connectionStatus = c]
    ELSE [w EXCEPT !.obs.connected = c]

\* websocket.onopen (lines 609-616)
OnOpen(w, s, syncOk) ==
    LET i == w.sock[s].owner
        w1 == [w EXCEPT !.sock[s].rs = "OPEN",
                        !.svc[i].isConnected = TRUE,
                        !.svc[i].reconnectAttempts = 0,
                        !.svc[i].hbTicks = 0,
                        !.svc[i].sinceMessage = 0,
                        !.svc[i].sinceOpen = 0]
    IN  Resolve(ConnectionCallback(w1, i, TRUE), s, TRUE, syncOk)

SocketOpen(s) ==
    /\ sock[s].rs = "CONNECTING"
    /\ \E syncOk \in SyncOutcomes(W, s, TRUE) : Becomes(OnOpen(W, s, syncOk))

\* websocket.onclose (lines 626-631)
OnClose(w, s) ==
    LET i == w.sock[s].owner IN
    AttemptReconnection(ConnectionCallback([w EXCEPT !.sock[s].rs = "CLOSED",
                                                     !.svc[i].isConnected = FALSE,
                                                     !.svc[i].hbTicks = 0,
                                                     !.svc[i].sinceMessage = 0],
                                            i, FALSE),
                        i)

\* The connection fails or drops, or the closing handshake of close() ends.
SocketClose(s) ==
    /\ sock[s].rs \in {"CONNECTING", "OPEN", "CLOSING"}
    /\ Becomes(OnClose(W, s))

\* The 10 s timer of connectWebSocket() call s (lines 634-639)
OnConnectTimeout(w, s, syncOk) ==
    LET w1 == [w EXCEPT !.sock[s].timer = FALSE] IN
    IF ~w.svc[w.sock[s].owner].isConnected THEN Resolve(w1, s, FALSE, syncOk) ELSE w1

ConnectTimeout(s) ==
    /\ sock[s].timer
    /\ Becomes(OnConnectTimeout(W, s, TRUE))

\* The reconnect-delay timer set by attemptReconnection() (lines 752-754)
OnReconnectTimer(w, i) ==
    SvcReconnect([w EXCEPT !.svc[i].reconnectTimers = @ - 1,
                           !.svc[i].sinceOpen = Min(@ + 1, MaxReconnectAttempts + 1)],
                 i)

ReconnectTimer(i, max) ==
    /\ svc[i].reconnectTimers > 0
    /\ nsock < max
    /\ Becomes(OnReconnectTimer(W, i))

\* Monitoring periods after which the age of lastHeartbeatTime is past the threshold
\* whatever the phase of the interval.
HbCap == HeartbeatTimeoutMs \div HeartbeatIntervalMs + 1

\* Date.now() - lastHeartbeatTime at the k-th callback of the interval after the
\* timestamp was set: the timestamp falls anywhere in the period before the
\* first of them, and a callback may run late.
Elapsed(k) == { (k - 1) * HeartbeatIntervalMs + 1, k * HeartbeatIntervalMs,
                k * HeartbeatIntervalMs + 1 }

\* The callback with the forced reconnect left out while the socket is open.
OnHeartbeat_m(w, i, elapsed) ==
    LET ws == w.svc[i].websocket
        open == ws # 0 /\ w.sock[ws].rs = "OPEN"
        conn == w.svc[i].isConnected
        over == elapsed > HeartbeatTimeoutMs
        w1 == [w EXCEPT !.svc[i].hbTicks = IF conn THEN Min(@ + 1, HbCap) ELSE 0,
                        !.svc[i].sinceMessage = IF conn THEN Min(@ + 1, HbCap) ELSE 0,
                        !.task.hb = i,
                        !.task.isConnected = conn,
                        !.task.open = open,
                        !.task.sent = conn /\ open,
                        !.task.over = over,
                        !.task.forced = conn /\ over]
    IN  IF conn /\ over /\ ~open THEN SvcReconnect(w1, i) ELSE w1

\* The callback of startConnectionMonitoring()'s interval (lines 727-742)
OnHeartbeat(w, i, elapsed) ==
    LET ws == w.svc[i].websocket
        open == ws # 0 /\ w.sock[ws].rs = "OPEN"
        conn == w.svc[i].isConnected
        over == elapsed > HeartbeatTimeoutMs
        w1 == [w EXCEPT !.svc[i].hbTicks = IF conn THEN Min(@ + 1, HbCap) ELSE 0,
                        !.svc[i].sinceMessage = IF conn THEN Min(@ + 1, HbCap) ELSE 0,
                        !.task.hb = i,
                        !.task.isConnected = conn,
                        !.task.open = open,
                        !.task.sent = conn /\ open,
                        !.task.over = over,
                        !.task.forced = conn /\ over]
    IN  IF conn /\ over THEN SvcReconnect(w1, i) ELSE w1

HeartbeatTick(i, max) ==
    /\ svc[i].intervals > 0
    /\ \E elapsed \in Elapsed(Min(svc[i].hbTicks + 1, HbCap)) :
          /\ (svc[i].isConnected /\ elapsed > HeartbeatTimeoutMs) => nsock < max
          /\ Becomes(OnHeartbeat(W, i, elapsed))

\* websocket.onmessage of socket s (lines 618-620): handleWebSocketMessage()
\* (lines 647-661) parses the message and hands a result on; it assigns no field
\* of the service, lastHeartbeatTime (written at line 613 only) included.
OnMessage(w, s) ==
    [w EXCEPT !.svc[w.sock[s].owner].sinceMessage = 0]

InboundMessage(s) ==
    /\ sock[s].rs = "OPEN"
    /\ svc[sock[s].owner].websocket = s
    /\ Becomes(OnMessage(W, s))

\* workletManager.initialize() of processor start call s settles.
OnWorkletDone(w, s, loaded) ==
    LET i == w.sock[s].owner
        p == w.sock[s].p
        ok == ProcStartOk(w, p, s, loaded)
        w1 == [ProcStartAsync(w, p, s, loaded) EXCEPT !.sock[s].pc = "done"]
    IN  IF w.sock[s].by = "start"
        THEN IF ok
             THEN StartReturn(StartConnectionMonitoring(w1, i), s, TRUE)
             ELSE StartReturn(SvcStop(w1, i), s, FALSE)
        ELSE w1

WorkletDone(s) ==
    /\ sock[s].pc = "processor"
    /\ \E loaded \in BOOLEAN : Becomes(OnWorkletDone(W, s, loaded))

\* ------------------------------------------- a client of the bare service
\* The client starts a service that is idle: never started, stopped, or whose
\* last start() returned false.
ClientStart(i, hds) ==
    /\ ~svc[i].managed
    /\ obs.phase \in {"idle", "stopped"}
    /\ obs.starts < MaxStarts
    /\ nsock < MaxSock
    /\ \E valid \in BOOLEAN, hd \in hds, throws \in BOOLEAN :
          Becomes(SvcStart(NewStream([W EXCEPT !.obs.phase = "busy", !.obs.starts = @ + 1,
                                               !.obs.startResult = "none"]),
                           i, "client", valid, hd, throws))

ClientStop(i) ==
    /\ ~svc[i].managed
    /\ Becomes([SvcStop(W, i) EXCEPT !.obs.phase = "stopped"])

\* ------------------------------------------------------ stream validation
\* A MediaStream reference is null or has the sequence of its tracks
\* [kind, readyState, enabled, muted].
Tracks ==
    [ kind : {"audio", "video"}, readyState : {"live", "ended"},
      enabled : BOOLEAN, muted : BOOLEAN ]

NullStream == [null |-> TRUE, tracks |-> <<>>]

Streams ==
    {NullStream} \cup
    { [null |-> FALSE, tracks |-> t] : t \in UNION { [1..n -> Tracks] : n \in 0..MaxTracks } }

\* stream.getAudioTracks()
GetAudioTracks(stream) ==
    LET IsAudio(track) == track.kind = "audio" IN SelectSeq(stream.tracks, IsAudio)

\* The test of a track in validateAudioStream() (errorHandling.ts line 36) and
\* in checkHealth() (part_003 line 350).
IsValid_m(track) == track.readyState = "live" /\ (track.enabled /\ ~track.muted)
IsValid(track) == track.readyState = "live" \/ (track.enabled /\ ~track.muted)

\* validateAudioStream() (errorHandling.ts lines 14-58)
ValidateAudioStream(stream) ==
    IF stream.null THEN FALSE
    ELSE LET audioTracks == GetAudioTracks(stream)
         IN  IF Len(audioTracks) = 0 THEN FALSE
             ELSE Len(SelectSeq(audioTracks, IsValid)) # 0

\* isHealthy of checkHealth() (part_003 lines 330-351), for a stream that is
\* not null.
IsHealthy(stream) ==
    LET audioTracks == GetAudioTracks(stream)
    IN  IF Len(audioTracks) = 0 THEN FALSE
        ELSE \E k \in 1..Len(audioTracks) : IsValid(audioTracks[k])

NoStream == [ stream |-> NullStream, isValid |-> "none" ]

\* validateAudioStream() is called with the stream.
Validate ==
    /\ strm' = [strm EXCEPT !.isValid =
                    IF ValidateAudioStream(strm.stream) THEN "true" ELSE "false"]
    /\ UNCHANGED <<ctl, rtp, vad, clock, wire, pcm, qa, rx, wk>>

\* A track of the stream ends, is muted or unmuted, is enabled or disabled.
TrackEvent ==
    /\ ~strm.stream.null
    /\ \E k \in 1..Len(strm.stream.tracks), track \in Tracks :
          /\ track.kind = strm.stream.tracks[k].kind
          /\ strm.stream.tracks[k].readyState = "ended" => track.readyState = "ended"
          /\ track # strm.stream.tracks[k]
          /\ strm' = [strm EXCEPT !.stream.tracks[k] = track]
    /\ UNCHANGED <<ctl, rtp, vad, clock, wire, pcm, qa, rx, wk>>

\* ------------------------------------------------- the manager's tasks
\* initialize(audioSource) from the stream on, up to its await of service.start()
\* (lines 107-140): a new service replaces this.transcriptionService.
InitializeBody(w, caller, valid, hd, throws) ==
    LET i == w.mgr.nsvc + 1 IN
    SvcStart(NewStream([w EXCEPT !.mgr.mediaStream = TRUE,
                                 !.mgr.current = {i},
                                 !.mgr.recovered = FALSE,
                                 !.mgr.qualityAnalyzer = TRUE,
                                 !.mgr.transcriptionService = i,
                                 !.mgr.nsvc = i,
                                 !.svc[i] = [NewService EXCEPT !.managed = TRUE]]),
             i, caller, valid, hd, throws)

\* initialize(audioSource) up to its first await: of getAudioStream() when no
\* stream is passed (lines 101-106), else of service.start().
InitializeCall(w, caller, given, valid, hd, throws) ==
    IF given
    THEN LET w1 == InitializeBody(w, caller, valid, hd, throws) IN
         \* the timer of updateOptions() passes this.mediaStream itself (line 370)
         IF caller = "reinit" /\ w1.mgr.mediaStream
         THEN [w1 EXCEPT !.mgr.current = @ \cup w.mgr.current]
         ELSE w1
    ELSE [w EXCEPT !.mgr.acquiring[caller] = @ + 1]

\* Services the initialize() calls under way will construct.
Constructing == mgr.nsvc + mgr.acquiring["init"] + mgr.acquiring["reinit"]

\* The outcomes of a start() that the socket budget leaves room for. The HD
\* chain of a managed service is built; that it cannot be is an outcome of
\* the start() of a bare service.
StartOutcomes(max) ==
    { o \in [valid : BOOLEAN, hd : {TRUE}, throws : BOOLEAN] :
          (o.valid /\ ~o.throws) => nsock < max }

\* The consumer calls initialize(), with a stream or without.
Initialize(max) ==
    /\ Constructing < MaxSvc
    /\ \E given \in BOOLEAN, o \in StartOutcomes(max) :
          Becomes(InitializeCall([W EXCEPT !.mgr.phase =
                                      CASE @ \in {"active", "layered"} -> "layered"
                                        [] InitCallsInFlight(W) > 0 -> "overlapped"
                                        [] OTHER -> "initializing"],
                                 "init", given, o.valid, o.hd, o.throws))

\* getAudioStream() of an initialize() call settles (lines 101-106): with no
\* stream the call throws, and its catch runs cleanup() and returns false.
InitGotStream(max) ==
    \E caller \in {"init", "reinit"}, ok \in BOOLEAN, o \in StartOutcomes(max) :
        /\ mgr.acquiring[caller] > 0
        /\ LET w == [W EXCEPT !.mgr.acquiring[caller] = @ - 1] IN
           Becomes(IF ok
                   THEN InitializeBody(w, caller, o.valid, o.hd, o.throws)
                   ELSE InitializeReturn(w, 0, caller, FALSE))

\* The consumer calls stop().
ManagerStop ==
    \E phase \in {IF InitCallsInFlight(W) > 0 THEN "aborted" ELSE "stopped"} :
        Becomes([MgrStop(W) EXCEPT !.mgr.phase = phase])

\* updateOptions() of an active manager (lines 363-373); of any other it sets
\* the options only.
UpdateOptions ==
    /\ mgr.isActive /\ mgr.mediaStream
    /\ Becomes([MgrStop(W) EXCEPT !.mgr.updateTimers = @ + 1])

\* The 100 ms timer of updateOptions(): initialize(this.mediaStream) (line 370)
UpdateTimer(max) ==
    /\ mgr.updateTimers > 0
    /\ Constructing < MaxSvc
    /\ \E o \in StartOutcomes(max) :
          Becomes(InitializeCall([W EXCEPT !.mgr.updateTimers = @ - 1,
                                           !.task.timer = "update"],
                                 "reinit", mgr.mediaStream, o.valid, o.hd, o.throws))

\* The 1 s interval of startMetricsCollection(): collectMetrics() (lines 307-326)
MetricsTick ==
    /\ mgr.metricsIntervals > 0
    /\ Becomes([W EXCEPT !.task.timer = "metrics",
                         !.mgr.connectionStatus =
                             IF mgr.transcriptionService # 0
                             THEN svc[mgr.transcriptionService].isConnected ELSE @])

\* handleStreamDisconnection() (lines 219-225)
HandleStreamDisconnection(w) == [OnError(w) EXCEPT !.mgr.recoveryTimers = @ + 1]

\* checkHealth() of monitor m (part_003 lines 328-374); healthy: the stream it
\* watches has an audio track that is live, or enabled and not muted.
CheckHealth_m(w, m, healthy) ==
    IF healthy
    THEN [w EXCEPT !.mgr.consecutiveFailures[m] = 0]
    ELSE LET w1 == [w EXCEPT !.mgr.consecutiveFailures[m] =
                                 Min(@ + 1, MAX_CONSECUTIVE_FAILURES)]
         IN  IF w1.mgr.consecutiveFailures[m] >= MAX_CONSECUTIVE_FAILURES - 1
             THEN HandleStreamDisconnection(w1)
             ELSE w1
CheckHealth(w, m, healthy) ==
    IF healthy
    THEN [w EXCEPT !.mgr.consecutiveFailures[m] = 0]
    ELSE LET w1 == [w EXCEPT !.mgr.consecutiveFailures[m] =
                                 Min(@ + 1, MAX_CONSECUTIVE_FAILURES)]
         IN  IF w1.mgr.consecutiveFailures[m] >= MAX_CONSECUTIVE_FAILURES
             THEN HandleStreamDisconnection(w1)
             ELSE w1

\* What checkHealth() can find: the stream it watches is never null, and its
\* tracks may be in any state.
HealthOutcomes == { IsHealthy(stream) : stream \in Streams \ {NullStream} }

HealthCheck(m) ==
    /\ m \in mgr.monitors
    /\ \E healthy \in HealthOutcomes :
          /\ (~healthy /\ mgr.consecutiveFailures[m] + 1 >= MAX_CONSECUTIVE_FAILURES)
                => mgr.recoveryTimers + mgr.recovering < MaxRecoveries
          /\ Becomes(CheckHealth([W EXCEPT !.task.timer = "health",
                                           !.task.monitor = m,
                                           !.task.healthy = healthy], m, healthy))

\* The 2 s timer of handleStreamDisconnection(): reconnect() up to its await of
\* getAudioStream() (lines 227-237)
RecoveryTimer ==
    /\ mgr.recoveryTimers > 0
    /\ LET w == [W EXCEPT !.mgr.recoveryTimers = @ - 1,
                          !.mgr.recovering = @ + 1,
                          !.mgr.recovered = FALSE,
                          !.task.timer = "recovery"]
       IN  Becomes(IF mgr.transcriptionService # 0
                   THEN [SvcStop(w, mgr.transcriptionService)
                             EXCEPT !.task.releasedBy = "none"]
                   ELSE w)

\* reconnect() after getAudioStream() settled (lines 238-254): a null
\* transcriptionService makes line 245 throw into the catch.
RecoverGotStream(max) ==
    /\ mgr.recovering > 0
    /\ \E ok \in BOOLEAN, o \in StartOutcomes(max) :
          LET w == [W EXCEPT !.mgr.recovering = @ - 1] IN
          Becomes(IF ~ok
                  THEN RecoveryFailed(w)
                  ELSE IF mgr.transcriptionService = 0
                       THEN RecoveryFailed(NewStream([w EXCEPT !.mgr.mediaStream = TRUE,
                                                               !.mgr.current = {}]))
                       ELSE SvcStart(NewStream([w EXCEPT !.mgr.mediaStream = TRUE,
                                                         !.mgr.current = {}]),
                                     mgr.transcriptionService, "recover",
                                     o.valid, o.hd, o.throws))

\* ------------------------------------------------------------ the audio path
\* RealtimeTranscriptionProcessor's frame handling and its
\* VoiceActivityDetector (audioWorkletManager.ts lines 733-1081).
\*
\* Numbers.  Sample amplitudes and RMS energies are integers in units of
\* 0.001 of full scale.  Durations and confidences are the quotients the
\* code computes, kept as fractions in lowest terms [n |-> , d |-> ] so that
\* comparing them with 0.5, 0.7 or a number of milliseconds is exact.  The
\* quotient 0/0 is NaN, as in the code; every comparison with it is false.
\* Binary floating-point rounding of the quotients is not modelled.

RECURSIVE GCD(_, _)
GCD(a, b) == IF b = 0 THEN a ELSE GCD(b, a % b)

Abs(x) == IF x < 0 THEN -x ELSE x

\* The quotient a / b of two non-negative numbers, b # 0, in lowest terms.
Frac(a, b) == LET g == GCD(a, b) IN [n |-> a \div g, d |-> b \div g]

FracTimes(x, k) == Frac(x.n * k, x.d)
FracPlus(x, y) == Frac(x.n * y.d + y.n * x.d, x.d * y.d)

\* x > p/q, x < p/q and x >= p/q as JavaScript evaluates them.
NaN == [n |-> 0, d |-> 0]

FracGt(x, p, q) == x # NaN /\ x.n * q > p * x.d
FracLt(x, p, q) == x # NaN /\ x.n * q < p * x.d
FracGe(x, p, q) == x # NaN /\ x.n * q >= p * x.d

\* The largest r with r * r <= x (Math.sqrt, to the unit of the model).
RECURSIVE SqrtIn(_, _, _)
SqrtIn(x, lo, hi) ==
    IF lo = hi THEN lo
    ELSE LET mid == (lo + hi + 1) \div 2
         IN  IF mid * mid <= x THEN SqrtIn(x, mid, hi) ELSE SqrtIn(x, lo, mid - 1)
Sqrt(x) == SqrtIn(x, 0, 1000)

\* A Float32Array of audio is a sequence of runs [samples |-> , amp |-> ]:
\* that many samples of that magnitude.
RECURSIVE SumSquares(_)
SumSquares(audioData) ==
    IF audioData = <<>> THEN 0
    ELSE Head(audioData).samples * Head(audioData).amp * Head(audioData).amp
         + SumSquares(Tail(audioData))

RECURSIVE Length(_)
Length(audioData) ==
    IF audioData = <<>> THEN 0
    ELSE Head(audioData).samples + Length(Tail(audioData))

\* calculateEnergy() (lines 1067-1073): the root of the mean square.  The
\* mean is taken run by run where all runs are equally loud, which is the
\* same number and keeps the sum small.
CalculateEnergy(audioData) ==
    IF \A k \in 1..Len(audioData) : audioData[k].amp = audioData[1].amp
    THEN Sqrt(audioData[1].amp * audioData[1].amp)
    ELSE Sqrt(SumSquares(audioData) \div Length(audioData))

\* historySize (line 1031)
historySize == 10

\* calculateBackgroundNoise() (lines 1075-1080)
CalculateBackgroundNoise(energyHistory) ==
    IF Len(energyHistory) = 0 THEN 1
    ELSE CHOOSE e \in { energyHistory[k] : k \in 1..Len(energyHistory) } :
            \A k \in 1..Len(energyHistory) : e <= energyHistory[k]

\* The energyHistory after detectVoiceActivity() pushed an energy (lines 1041-1045).
PushEnergy(energyHistory, energy) ==
    LET h == Append(energyHistory, energy)
    IN  IF Len(h) > historySize THEN Tail(h) ELSE h

\* Math.min(1.0, energy / (threshold * 3)), then Math.max(0, .) (lines 1055, 1059):
\* x / 0 is Infinity for x > 0 and NaN for x = 0, and Math.min and Math.max
\* of NaN are NaN.
Confidence(energy, threshold) ==
    IF threshold * 3 = 0
    THEN IF energy = 0 THEN NaN ELSE Frac(1, 1)
    ELSE IF energy >= threshold * 3 THEN Frac(1, 1)
         ELSE Frac(energy, threshold * 3)

\* What detectVoiceActivity() returns for audio of this energy, with this
\* history after the push (lines 1047-1060).
VadResult_m(energyHistory, energy) ==
    LET backgroundNoise == CalculateBackgroundNoise(energyHistory)
        threshold == backgroundNoise * 3
    IN  [ isSpeech |-> energy > threshold,
          confidence |-> Confidence(energy, threshold) ]
VadResult(energyHistory, energy) ==
    LET backgroundNoise == CalculateBackgroundNoise(energyHistory)
        threshold == backgroundNoise * 2
    IN  [ isSpeech |-> energy > threshold,
          confidence |-> Confidence(energy, threshold) ]

\* detectVoiceActivity() (lines 1037-1065) on detector state v.
DetectVoiceActivity(v, audioData) ==
    LET energy == CalculateEnergy(audioData)
        h == PushEnergy(v.energyHistory, energy)
    IN  [ energyHistory |-> h, energy |-> energy, result |-> VadResult(h, energy) ]

\* new VoiceActivityDetector (lines 1028-1035); energy and result: of the last call.
NewVad ==
    [ energyHistory |-> <<>>, energy |-> 0,
      result |-> [isSpeech |-> FALSE, confidence |-> Frac(0, 1)] ]

\* The TranscriptionConfig the service gives its processor
\* (enhancedTranscription.ts lines 694-703), ms.
chunkDuration == 500
overlapDuration == 100
minSpeechDuration == 200
\* maxAge of cleanupOldChunks() (line 987), ms.
maxAge == 30000
\* The silence after which handleSilencePeriod() flushes (line 926), ms.
SilenceFlushMs == 2000
\* samples of a frame of the worklet (audioProcessor.worklet.js line 8).
bufferSize == 4096

\* The AudioQualityAnalyzer of the manager (enhancedTranscription.ts lines
\* 115-122): "none" when enableQualityAnalysis is off, "failed" when its
\* initialize() returned false (no analyser node), "ready" otherwise; and
\* metrics.qualityScore, in hundredths.
AnalyzerStates == {"none", "failed", "ready"}
Scores == {0, 35, 90}
NoAnalyzer == [ analyzer |-> "none", qualityScore |-> 0 ]

\* analyzeQuality().qualityScore || 0 (highDefinitionAudio.ts lines 325-350):
\* an analyzer without analyser node returns {}.
AnalyzeQuality(q, score) == IF q.analyzer = "ready" THEN score ELSE 0

\* updateMetrics(), the part of the analyzer (lines 269-274)
UpdateMetrics(q, score) ==
    IF q.analyzer # "none"
    THEN [q EXCEPT !.qualityScore = AnalyzeQuality(q, score)]
    ELSE q

\* new RealtimeTranscriptionProcessor (lines 733-764) with this sampleRate.
\* made: AudioChunks created so far; frames: frames delivered so far;
\* created, transcribed and evicted: the chunk the last task created, the
\* chunks it handed to performTranscription() and the number of chunks its
\* cleanupOldChunks() removed.  forwarded: the ordinals of the chunks whose
\* samples were handed to performTranscription() so far.
NewProcessor(rate) ==
    [ isProcessing |-> FALSE, audioBuffer |-> <<>>, chunkQueue |-> <<>>,
      lastProcessTime |-> 0, silenceStartTime |-> 0, isSpeaking |-> FALSE,
      sampleRate |-> rate, made |-> 0, frames |-> 0,
      created |-> <<>>, transcribed |-> <<>>, evicted |-> 0, flushed |-> FALSE,
      forwarded |-> {} ]

\* duration of a chunk of this many samples (line 879).
ChunkDurationMs_m(samples, rate) == Frac(samples * 1000, rate + 1)
ChunkDurationMs(samples, rate) == FracTimes(Frac(samples, rate), 1000)

\* processTranscriptionChunk() up to its await (lines 960-965):
\* performTranscription() is a placeholder that returns a text made of the
\* sample count (lines 975-984) and sends nothing anywhere.
ProcessTranscriptionChunk(a, chunk) ==
    IF ~chunk.isSpeech \/ FracLt(chunk.confidence, 1, 2)
    THEN a
    ELSE [a EXCEPT !.rtp.transcribed = Append(@, chunk),
                   !.rtp.forwarded = @ \cup { chunk.data[k] : k \in 1..Len(chunk.data) }]

\* combineChunks() (lines 947-958): the PCM data of the chunks, end to end.
\* The data of a chunk is the sequence of the ordinals of the chunks whose
\* samples it holds.
RECURSIVE CombineChunks(_)
CombineChunks(chunks) ==
    IF chunks = <<>> THEN <<>> ELSE Head(chunks).data \o CombineChunks(Tail(chunks))

RECURSIVE TotalDuration(_)
TotalDuration(chunks) ==
    IF chunks = <<>> THEN Frac(0, 1)
    ELSE FracPlus(Head(chunks).duration, TotalDuration(Tail(chunks)))

RECURSIVE TotalSamples(_)
TotalSamples(chunks) ==
    IF chunks = <<>> THEN 0 ELSE Head(chunks).samples + TotalSamples(Tail(chunks))

IsSpeechChunk(chunk) == chunk.isSpeech

\* processAccumulatedSpeech() (lines 933-945)
ProcessAccumulatedSpeech(a) ==
    LET speechChunks == SelectSeq(a.rtp.chunkQueue, IsSpeechChunk)
    IN  IF Len(speechChunks) > 0
        THEN ProcessTranscriptionChunk(a,
                 [speechChunks[1] EXCEPT !.data = CombineChunks(speechChunks),
                                         !.samples = TotalSamples(speechChunks),
                                         !.duration = TotalDuration(speechChunks)])
        ELSE a

\* handleSilencePeriod() (lines 921-931)
HandleSilencePeriod(a, now) ==
    IF a.rtp.silenceStartTime = 0
    THEN [a EXCEPT !.rtp.silenceStartTime = now]
    ELSE IF now - a.rtp.silenceStartTime > SilenceFlushMs
         THEN [ProcessAccumulatedSpeech(a) EXCEPT !.rtp.silenceStartTime = 0,
                                                  !.rtp.flushed = TRUE]
         ELSE a

\* cleanupOldChunks() (lines 986-991)
CleanupOldChunks_m(a, now) ==
    LET Young(chunk) == now - chunk.timestamp <= maxAge
        kept == SelectSeq(a.rtp.chunkQueue, Young)
    IN  [a EXCEPT !.rtp.chunkQueue = kept,
                  !.rtp.evicted = Len(a.rtp.chunkQueue) - Len(kept)]
CleanupOldChunks(a, now) ==
    LET Young(chunk) == now - chunk.timestamp < maxAge
        kept == SelectSeq(a.rtp.chunkQueue, Young)
    IN  [a EXCEPT !.rtp.chunkQueue = kept,
                  !.rtp.evicted = Len(a.rtp.chunkQueue) - Len(kept)]

\* processAudioChunk() (lines 851-900); the buffer is not empty when
\* processAudioFrame() calls it.
ProcessAudioChunk_m(a, now) ==
    LET combinedData == a.rtp.audioBuffer
        v == DetectVoiceActivity(a.vad, combinedData)
        chunk == [ id |-> a.rtp.made + 1,
                   timestamp |-> now,
                   data |-> << a.rtp.made + 1 >>,
                   samples |-> Length(combinedData),
                   duration |-> ChunkDurationMs(Length(combinedData), a.rtp.sampleRate),
                   isSpeech |-> v.result.isSpeech,
                   confidence |-> v.result.confidence ]
        a1 == [a EXCEPT !.vad = v,
                        !.rtp.audioBuffer = <<>>,
                        !.rtp.made = @ + 1,
                        !.rtp.created = <<chunk>>,
                        !.rtp.chunkQueue = Append(@, chunk)]
        a2 == IF chunk.isSpeech /\ FracGt(chunk.confidence, 7, 10)
                 /\ (a.qa.analyzer = "ready" => a.qa.qualityScore >= 50)
              THEN ProcessTranscriptionChunk(a1, chunk)
              ELSE IF ~a1.rtp.isSpeaking THEN HandleSilencePeriod(a1, now) ELSE a1
    IN  CleanupOldChunks(a2, now)
ProcessAudioChunk(a, now) ==
    LET combinedData == a.rtp.audioBuffer
        v == DetectVoiceActivity(a.vad, combinedData)
        chunk == [ id |-> a.rtp.made + 1,
                   timestamp |-> now,
                   data |-> << a.rtp.made + 1 >>,
                   samples |-> Length(combinedData),
                   duration |-> ChunkDurationMs(Length(combinedData), a.rtp.sampleRate),
                   isSpeech |-> v.result.isSpeech,
                   confidence |-> v.result.confidence ]
        a1 == [a EXCEPT !.vad = v,
                        !.rtp.audioBuffer = <<>>,
                        !.rtp.made = @ + 1,
                        !.rtp.created = <<chunk>>,
                        !.rtp.chunkQueue = Append(@, chunk)]
        a2 == IF chunk.isSpeech /\ FracGt(chunk.confidence, 7, 10)
              THEN ProcessTranscriptionChunk(a1, chunk)
              ELSE IF ~a1.rtp.isSpeaking THEN HandleSilencePeriod(a1, now) ELSE a1
    IN  CleanupOldChunks(a2, now)

\* processAudioFrame() (lines 830-849)
ProcessAudioFrame(a, frame, now) ==
    IF ~a.rtp.isProcessing THEN a
    ELSE LET a1 == [a EXCEPT !.rtp.audioBuffer = Append(@, frame)]
         IN  IF now - a1.rtp.lastProcessTime >= chunkDuration
             THEN [ProcessAudioChunk(a1, now) EXCEPT !.rtp.lastProcessTime = now]
             ELSE a1

\* The processor and its detector as one value, at the start of a task.
A == [ rtp |-> [rtp EXCEPT !.created = <<>>, !.transcribed = <<>>, !.evicted = 0,
                           !.flushed = FALSE],
       vad |-> vad,
       qa |-> qa ]

AudioBecomes(a) ==
    /\ rtp' = a.rtp
    /\ vad' = a.vad

\* The milliseconds that pass before a frame arrives, the sizes of a frame in
\* samples and its loudness.
Delays == {0, chunkDuration, SilenceFlushMs + chunkDuration, maxAge}
FrameSizes == {128, 8000}
Levels == {1, 3, 20}
SampleRates == {16000, 44100}

\* start() from its last await on (lines 818-822)
RtpStart ==
    /\ ~rtp.isProcessing
    /\ AudioBecomes([A EXCEPT !.rtp.isProcessing = TRUE,
                              !.rtp.lastProcessTime = clock])
    /\ UNCHANGED <<ctl, clock, wire, pcm, strm, qa, rx, wk>>

\* The worklet delivers a frame: the callback of lines 809-811.
AudioFrame ==
    /\ rtp.frames < MaxFrames
    /\ \E dt \in Delays, n \in FrameSizes, amp \in Levels :
          /\ clock' = clock + dt
          /\ AudioBecomes(ProcessAudioFrame([A EXCEPT !.rtp.frames = @ + 1],
                                            [samples |-> n, amp |-> amp],
                                            clock + dt))
    /\ UNCHANGED <<ctl, wire, pcm, strm, qa, rx, wk>>

\* stop() (lines 993-1016)
RtpStop ==
    /\ rtp.isProcessing
    /\ AudioBecomes([A EXCEPT !.rtp.isProcessing = FALSE,
                              !.rtp.audioBuffer = <<>>,
                              !.rtp.chunkQueue = <<>>])
    /\ UNCHANGED <<ctl, clock, wire, pcm, strm, qa, rx, wk>>

\* The loudness of the frames given to a detector on its own; 500 is RMS 0.5.
VadLevels == {0, 1, 3, 500}

\* detectVoiceActivity() called with one frame.
Detect ==
    \E amp \in VadLevels :
       /\ vad' = DetectVoiceActivity(vad, << [samples |-> 128, amp |-> amp] >>)
       /\ UNCHANGED <<ctl, rtp, clock, wire, pcm, strm, qa, rx, wk>>

\* ------------------------------------------------- Float32 to 16-bit PCM
\* A sample and a value of Math.random() are fractions [n |-> , d |-> ] with
\* d > 0.

\* Math.max(-1, Math.min(1, x))
Clamp(x) == IF x.n > x.d THEN Frac(1, 1) ELSE IF x.n < -x.d THEN Frac(-1, 1) ELSE x

\* Math.round(x): the integer nearest to x, halves upwards.
Round(x) == (x.n \div x.d) + (IF 2 * (x.n % x.d) >= x.d THEN 1 ELSE 0)

\* Storing v in an Int16Array keeps v modulo 2^16, in -32768..32767.
ToInt16(v) == ((v + 32768) % 65536) - 32768

\* applyDithering() (lines 915-919): sample + (Math.random() - 0.5) * 0.001
ApplyDithering(sample, random) ==
    FracPlus(sample, Frac(random.n * 2 - random.d, random.d * 2 * 1000))

\* convertToPCM() on one sample (lines 907-909)
ConvertToPCM(x, random) ==
    ToInt16(Round(FracTimes(ApplyDithering(Clamp(x), random), 32767)))

\* processAudioForTranscription() on one sample (lines 469-471):
\* dither = ((Math.random() - 0.5) * 2) / 32768
ProcessAudioForTranscription(x, random) ==
    LET dither == Frac(random.n * 2 - random.d, random.d * 32768)
        sample == FracPlus(Clamp(x), dither)
    IN  ToInt16(Round(FracTimes(sample, 32767)))

\* The samples, some of them out of range, and the values of Math.random(),
\* which is less than 1.
Samples == { Frac(k, 4) : k \in -5..5 } \cup { Frac(k, 32) : k \in {-31, -1, 1, 31} }
Randoms == { Frac(j, 4) : j \in 0..3 }

NoConversion == [ by |-> "none", x |-> Frac(0, 1), random |-> Frac(0, 1), out |-> 0 ]

\* One sample goes through the chunker's converter.
Convert ==
    \E x \in Samples, random \in Randoms :
       /\ pcm' = [ by |-> "convertToPCM", x |-> x, random |-> random,
                   out |-> ConvertToPCM(x, random) ]
       /\ UNCHANGED <<ctl, rtp, vad, clock, wire, strm, qa, rx, wk>>

\* One sample goes through the optimizer's converter.
OptimizerConvert ==
    \E x \in Samples, random \in Randoms :
       /\ pcm' = [ by |-> "processAudioForTranscription", x |-> x, random |-> random,
                   out |-> ProcessAudioForTranscription(x, random) ]
       /\ UNCHANGED <<ctl, rtp, vad, clock, wire, strm, qa, rx, wk>>

\* ------------------------------------------------------ transcript results
\* A text is a sequence of characters.
RECURSIVE TrimStart(_)
TrimStart(t) == IF t # <<>> /\ Head(t) = " " THEN TrimStart(Tail(t)) ELSE t

RECURSIVE TrimEnd(_)
TrimEnd(t) ==
    IF t # <<>> /\ t[Len(t)] = " " THEN TrimEnd(SubSeq(t, 1, Len(t) - 1)) ELSE t

\* String.prototype.trim()
Trim(t) == TrimEnd(TrimStart(t))

Texts == { <<>>, <<"a">>, <<" ", "b", " ">> }
\* confidence, in hundredths; 0 is absent
Confidences == {0, 90}
Alts == [ transcript : Texts, confidence : Confidences ]
OtherAlt == [ transcript |-> <<"z">>, confidence |-> 90 ]

\* event.data of a message of the backend: whether JSON.parse() accepts it,
\* and of the value parsed its type, whether it has a channel, the
\* alternatives of the channel and is_final.
NoMessage ==
    [ parses |-> FALSE, type |-> "none", channel |-> FALSE, alternatives |-> <<>>,
      is_final |-> FALSE ]
Messages ==
    {NoMessage}
    \cup { [NoMessage EXCEPT !.parses = TRUE, !.type = type] :
               type \in {"Metadata", "UtteranceEnd", "Other"} }
    \cup { [ parses |-> TRUE, type |-> "Results", channel |-> FALSE,
             alternatives |-> <<>>, is_final |-> final ] : final \in BOOLEAN }
    \cup { [ parses |-> TRUE, type |-> "Results", channel |-> TRUE,
             alternatives |-> alternatives, is_final |-> final ] :
               alternatives \in {<<>>} \cup { <<alt>> : alt \in Alts }
                                       \cup { <<alt, OtherAlt>> : alt \in Alts },
               final \in BOOLEAN }

\* The data the optimizer, the integration and the page are given for a
\* result: its transcript and is_final.
TranscriptData == [ transcript : Texts, is_final : BOOLEAN ]

\* No result handled yet. path: the handler that ran last, msg: what it was
\* given, delivered: the results the service's onTranscriptionCallback was
\* called with by it, isFinal: the finality it reported ("none": none).
NoResults ==
    [ n |-> 0, path |-> "none", msg |-> NoMessage, delivered |-> <<>>,
      isFinal |-> "none",
      isOptimizedMode |-> FALSE,
      stableTranscript |-> <<>>, interimTranscript |-> <<>>, returned |-> <<>>,
      transcriptSegments |-> <<>>, pageInterimTranscript |-> <<>> ]

\* The services and the results path as one value, at the start of a task.
R == [ svc |-> svc,
       rx |-> [rx EXCEPT !.delivered = <<>>, !.isFinal = "none", !.returned = <<>>] ]

Reported(b) == IF b THEN "true" ELSE "false"

\* handleTranscriptionResults() (enhancedTranscription.ts lines 663-690):
\* reading the alternatives of a missing channel throws into the catch.
HandleTranscriptionResults(r, i, data) ==
    IF ~data.channel THEN r
    ELSE IF Len(data.alternatives) > 0
         THEN LET result == data.alternatives[1]
                  transcriptionResult ==
                      [ text |-> result.transcript,
                        confidence |-> IF result.confidence # 0
                                       THEN result.confidence ELSE 85,
                        isFinal |-> ~data.is_final ]
              IN  [r EXCEPT !.rx.delivered = Append(@, transcriptionResult),
                            !.rx.isFinal = Reported(transcriptionResult.isFinal)]
         ELSE r

\* handleWebSocketMessage() of service i (lines 647-661)
HandleWebSocketMessage_m(r, i, msg) ==
    IF ~msg.parses THEN [r EXCEPT !.svc[i].isConnected = FALSE,
                                  !.svc[i].reconnectAttempts = @ + 1]
    ELSE IF msg.type \in {"Results", "Metadata"}
         THEN HandleTranscriptionResults(r, i, [msg EXCEPT !.channel = TRUE])
         ELSE r
HandleWebSocketMessage(r, i, msg) ==
    IF ~msg.parses THEN r
    ELSE IF msg.type = "Results" THEN HandleTranscriptionResults(r, i, msg)
         ELSE r

\* getCombinedTranscript() (audioWorkletManager.ts lines 584-586)
GetCombinedTranscript(r) == Trim(r.rx.stableTranscript \o r.rx.interimTranscript)

\* TranscriptionOptimizer.processTranscript() (lines 490-526)
OptimizerProcessTranscript(r, transcriptData) ==
    LET transcript == Trim(transcriptData.transcript)
        isFinal == transcriptData.is_final
        r1 == IF isFinal
              THEN [r EXCEPT !.rx.stableTranscript = @ \o transcript \o <<" ">>,
                             !.rx.interimTranscript = <<>>]
              ELSE [r EXCEPT !.rx.interimTranscript = transcript]
    IN  [r1 EXCEPT !.rx.returned = GetCombinedTranscript(r1),
                   !.rx.isFinal = Reported(isFinal)]

\* TranscriptionIntegration.processTranscript() (part_004 lines 570-596)
IntegrationProcessTranscript(r, transcriptData) ==
    IF r.rx.isOptimizedMode
    THEN OptimizerProcessTranscript(r, transcriptData)
    ELSE [r EXCEPT !.rx.returned = Trim(transcriptData.transcript),
                   !.rx.isFinal = Reported(transcriptData.is_final)]

\* handleDeepgramTranscript() of the page (part_000 lines 353-381)
HandleDeepgramTranscript(r, data) ==
    LET newTranscript == Trim(data.transcript)
    IN  IF newTranscript = <<>> THEN r
        ELSE IF data.is_final
             THEN [r EXCEPT !.rx.transcriptSegments = Append(@, newTranscript),
                            !.rx.pageInterimTranscript = <<>>,
                            !.rx.isFinal = "true"]
             ELSE [r EXCEPT !.rx.pageInterimTranscript = newTranscript,
                            !.rx.isFinal = "false"]

\* The message made of the data given to the optimizer, the integration or
\* the page, for the record of what a handler was given.
AsMessage(data) ==
    [ parses |-> TRUE, type |-> "Results", channel |-> TRUE,
      alternatives |-> << [transcript |-> data.transcript, confidence |-> 0] >>,
      is_final |-> data.is_final ]

ResultsBecome(r, path, msg) ==
    /\ svc' = r.svc
    /\ rx' = [r.rx EXCEPT !.n = @ + 1, !.path = path, !.msg = msg]
    /\ UNCHANGED <<sock, nsock, proc, mgr, obs, task, rtp, vad, clock, wire, pcm, strm, qa, wk>>

\* websocket.onmessage of service i (lines 618-620)
SocketMessage(i) ==
    /\ rx.n < MaxResults
    /\ \E msg \in Messages :
          ResultsBecome(HandleWebSocketMessage(R, i, msg), "service", msg)

\* A result given to the optimizer.
OptimizerResult ==
    /\ rx.n < MaxResults
    /\ \E data \in TranscriptData :
          ResultsBecome(OptimizerProcessTranscript(R, data), "optimizer", AsMessage(data))

\* A result given to the integration.
IntegrationResult ==
    /\ rx.n < MaxResults
    /\ \E data \in TranscriptData :
          ResultsBecome(IntegrationProcessTranscript(R, data), "integration", AsMessage(data))

\* The page's listener of transcripts is called.
PageResult ==
    /\ rx.n < MaxResults
    /\ \E data \in TranscriptData :
          ResultsBecome(HandleDeepgramTranscript(R, data), "page", AsMessage(data))

\* ------------------------------------------------------ the audio worklet
\* The AudioProcessor after its constructor (audioProcessor.worklet.js lines
\* 6-11). posted: the frames the last process() call posted; calls, fed and
\* sent: process() calls, mono samples given and samples posted so far.
NewAudioProcessor ==
    [ sampleBuffer |-> [i \in 1..bufferSize |-> 0], bufferIndex |-> 0,
      posted |-> <<>>, calls |-> 0, fed |-> 0, sent |-> 0 ]

\* No AudioProcessor constructed.
NoAudioProcessor == [NewAudioProcessor EXCEPT !.sampleBuffer = <<>>]

\* Float32Array.prototype.subarray(begin, end) of an array, indices from 0.
Subarray(array, begin, end) == SubSeq(array, begin + 1, Min(end, Len(array)))

\* Float32Array.prototype.set(source, offset)
SetAt(array, source, offset) ==
    [i \in 1..Len(array) |->
        IF i > offset /\ i <= offset + Len(source) THEN source[i - offset] ELSE array[i]]

RECURSIVE SumAt(_, _, _)
SumAt(input, i, j) == IF j = 0 THEN 0 ELSE input[j][i] + SumAt(input, i, j - 1)

\* The downmix of lines 17-33.
MonoSamples(input) ==
    IF Len(input) > 1
    THEN [i \in 1..Len(input[1]) |-> SumAt(input, i, Len(input)) \div Len(input)]
    ELSE input[1]

\* The loop of lines 42-59.
RECURSIVE Accumulate(_, _, _)
Accumulate(k, monoSamples, offset) ==
    IF offset < Len(monoSamples)
    THEN LET remainingInBuffer == bufferSize - k.bufferIndex
             chunk == Subarray(monoSamples, offset, offset + remainingInBuffer)
             k1 == [k EXCEPT !.sampleBuffer = SetAt(@, chunk, k.bufferIndex),
                             !.bufferIndex = @ + Len(chunk)]
             k2 == IF k1.bufferIndex >= bufferSize
                   THEN [k1 EXCEPT !.posted = Append(@, k1.sampleBuffer),
                                   !.bufferIndex = 0]
                   ELSE k1
         IN  Accumulate(k2, monoSamples, offset + Len(chunk))
    ELSE k

\* process() (lines 13-64)
Process_m(k, input) ==
    IF Len(input) > 0 THEN Accumulate(k, input[1], 0) ELSE k
Process(k, input) ==
    IF Len(input) > 0 THEN Accumulate(k, MonoSamples(input), 0) ELSE k

\* The blocks process() is given: their lengths and channel counts. The mono
\* stream is 1, 2, 3, ...: of sample s one channel has s, two channels have
\* s + 1 and s - 1.
BlockLengths == {128, 4000, 4096, 9000}
ChannelCounts == {1, 2}
Skew(j, channels) == IF channels = 1 THEN 0 ELSE IF j = 1 THEN 1 ELSE 0 - 1
Block(first, length, channels) ==
    [j \in 1..channels |-> [i \in 1..length |-> first + i + Skew(j, channels)]]

\* The audio thread calls process().
ProcessCall ==
    /\ wk.calls < MaxCalls
    /\ \E length \in BlockLengths, channels \in ChannelCounts :
          LET k == Process([wk EXCEPT !.posted = <<>>],
                           Block(wk.fed, length, channels))
          IN  wk' = [k EXCEPT !.calls = @ + 1,
                              !.fed = @ + length,
                              !.sent = @ + bufferSize * Len(k.posted)]
    /\ UNCHANGED <<ctl, rtp, vad, clock, wire, pcm, strm, qa, rx>>

\* ------------------------------------------------------------ specifications
\* The audio path before anything is constructed.
AudioAtRest ==
    /\ rtp = NewProcessor(16000)
    /\ vad = NewVad
    /\ clock = 1
    /\ wire = <<>>
    /\ pcm = NoConversion
    /\ strm = NoStream
    /\ qa = NoAnalyzer
    /\ rx = NoResults
    /\ wk = NoAudioProcessor

\* The control path before anything is started.
ControlAtRest ==
    /\ svc = [i \in Svcs |-> NewService]
    /\ sock = [s \in Socks |-> NoSocket]
    /\ nsock = 0
    /\ proc = [p \in Socks |-> NoProcessor]
    /\ mgr = NewManager
    /\ obs = [ phase |-> "idle", starts |-> 0, startResult |-> "none",
               connected |-> FALSE ]
    /\ task = Quiet

\* A bare service and its client.
InitSvc ==
    /\ svc = [i \in Svcs |-> NewService]
    /\ sock = [s \in Socks |-> NoSocket]
    /\ nsock = 0
    /\ proc = [p \in Socks |-> NoProcessor]
    /\ mgr = NewManager
    /\ obs = [ phase |-> "idle", starts |-> 0, startResult |-> "none",
               connected |-> FALSE ]
    /\ task = Quiet
    /\ AudioAtRest

NextSvc ==
    \/ ClientStart(1, {TRUE})
    \/ ClientStop(1)
    \/ \E s \in Socks : SocketOpen(s)
    \/ \E s \in Socks : SocketClose(s)
    \/ \E s \in Socks : ConnectTimeout(s)
    \/ \E i \in Svcs : ReconnectTimer(i, MaxSock)
    \/ \E i \in Svcs : HeartbeatTick(i, MaxSock)
    \/ \E s \in Socks : WorkletDone(s)

SpecSvc == InitSvc /\ [][NextSvc]_vars

\* A manager and its consumer.
Init ==
    /\ svc = [i \in Svcs |-> NewService]
    /\ sock = [s \in Socks |-> NoSocket]
    /\ nsock = 0
    /\ proc = [p \in Socks |-> NoProcessor]
    /\ mgr = NewManager
    /\ obs = [ phase |-> "idle", starts |-> 0, startResult |-> "none",
               connected |-> FALSE ]
    /\ task = Quiet
    /\ AudioAtRest

Next ==
    \/ Initialize(MaxMgrSock)
    \/ InitGotStream(MaxMgrSock)
    \/ ManagerStop
    \/ UpdateOptions
    \/ UpdateTimer(MaxMgrSock)
    \/ MetricsTick
    \/ \E m \in Svcs : HealthCheck(m)
    \/ RecoveryTimer
    \/ RecoverGotStream(MaxMgrSock)
    \/ \E s \in Socks : SocketOpen(s)
    \/ \E s \in Socks : SocketClose(s)
    \/ \E s \in Socks : ConnectTimeout(s)
    \/ \E i \in Svcs : ReconnectTimer(i, MaxMgrSock)
    \/ \E i \in Svcs : HeartbeatTick(i, MaxMgrSock)
    \/ \E s \in Socks : WorkletDone(s)

Spec == Init /\ [][Next]_vars

\* A processor and the frames of its worklet.
InitChunker ==
    /\ ControlAtRest
    /\ \E rate \in SampleRates : rtp = NewProcessor(rate)
    /\ vad = NewVad
    /\ clock = 1
    /\ wire = <<>>
    /\ pcm = NoConversion
    /\ strm = NoStream
    /\ qa = NoAnalyzer
    /\ rx = NoResults
    /\ wk = NoAudioProcessor

NextChunker ==
    \/ RtpStart
    \/ AudioFrame
    \/ RtpStop

SpecChunker == InitChunker /\ [][NextChunker]_vars

\* onTranscription of the manager: updateMetrics() with what the analyser
\* measures now.
QualityUpdate ==
    /\ \E score \in Scores : qa' = UpdateMetrics(qa, score)
    /\ UNCHANGED <<ctl, rtp, vad, clock, wire, pcm, strm, rx, wk>>

\* The frames of a processor whose manager has an analyzer or none.
GatedFrame ==
    /\ rtp.frames < MaxGateFrames
    /\ AudioFrame

InitAnalyzer ==
    /\ ControlAtRest
    /\ \E rate \in SampleRates : rtp = NewProcessor(rate)
    /\ vad = NewVad
    /\ clock = 1
    /\ wire = <<>>
    /\ pcm = NoConversion
    /\ strm = NoStream
    /\ \E state \in AnalyzerStates : qa = [NoAnalyzer EXCEPT !.analyzer = state]
    /\ rx = NoResults
    /\ wk = NoAudioProcessor

NextAnalyzer ==
    \/ RtpStart
    \/ GatedFrame
    \/ RtpStop
    \/ QualityUpdate

SpecAnalyzer == InitAnalyzer /\ [][NextAnalyzer]_vars

\* A service that receives messages, and an optimizer, an integration and a
\* page that are given results. The service is connected or has just closed
\* its socket, with any count of reconnect attempts.
InitResults ==
    /\ \E connected \in BOOLEAN, attempts \in 0..MaxReconnectAttempts :
          svc = [i \in Svcs |-> [NewService EXCEPT !.isConnected = connected,
                                                  !.reconnectAttempts = attempts]]
    /\ sock = [s \in Socks |-> NoSocket]
    /\ nsock = 0
    /\ proc = [p \in Socks |-> NoProcessor]
    /\ mgr = NewManager
    /\ obs = [ phase |-> "idle", starts |-> 0, startResult |-> "none",
               connected |-> FALSE ]
    /\ task = Quiet
    /\ rtp = NewProcessor(16000)
    /\ vad = NewVad
    /\ clock = 1
    /\ wire = <<>>
    /\ pcm = NoConversion
    /\ strm = NoStream
    /\ qa = NoAnalyzer
    /\ \E mode \in BOOLEAN : rx = [NoResults EXCEPT !.isOptimizedMode = mode]
    /\ wk = NoAudioProcessor

NextResults ==
    \/ SocketMessage(1)
    \/ OptimizerResult
    \/ IntegrationResult
    \/ PageResult

SpecResults == InitResults /\ [][NextResults]_vars

\* A worklet and the blocks of the audio thread.
InitWorklet ==
    /\ ControlAtRest
    /\ rtp = NewProcessor(16000)
    /\ vad = NewVad
    /\ clock = 1
    /\ wire = <<>>
    /\ pcm = NoConversion
    /\ strm = NoStream
    /\ qa = NoAnalyzer
    /\ rx = NoResults
    /\ wk = NewAudioProcessor

NextWorklet == ProcessCall

SpecWorklet == InitWorklet /\ [][NextWorklet]_vars

\* A bare service whose HD chain may fail to build, and its client.
NextHd ==
    \/ ClientStart(1, BOOLEAN)
    \/ ClientStop(1)
    \/ \E s \in Socks : SocketOpen(s)
    \/ \E s \in Socks : SocketClose(s)
    \/ \E s \in Socks : ConnectTimeout(s)
    \/ \E i \in Svcs : ReconnectTimer(i, MaxHdSock)
    \/ \E i \in Svcs : HeartbeatTick(i, MaxHdSock)
    \/ \E s \in Socks : WorkletDone(s)

SpecHd == InitSvc /\ [][NextHd]_vars

\* A bare service on whose open socket messages arrive.
NextTraffic ==
    \/ ClientStart(1, {TRUE})
    \/ ClientStop(1)
    \/ \E s \in Socks : SocketOpen(s)
    \/ \E s \in Socks : SocketClose(s)
    \/ \E s \in Socks : ConnectTimeout(s)
    \/ \E i \in Svcs : ReconnectTimer(i, MaxHdSock)
    \/ \E i \in Svcs : HeartbeatTick(i, MaxHdSock)
    \/ \E s \in Socks : WorkletDone(s)
    \/ \E s \in Socks : InboundMessage(s)

SpecTraffic == InitSvc /\ [][NextTraffic]_vars

\* The same service with its timers due: the callback of a 10 s timer that
\* connectWebSocket() set (lines 634-639) runs in the end.
SpecTimers == InitSvc /\ [][NextHd]_vars /\ \A s \in Socks : WF_vars(ConnectTimeout(s))

\* A VoiceActivityDetector and the buffers it is given.
InitVad == ControlAtRest /\ AudioAtRest

NextVad == Detect

SpecVad == InitVad /\ [][NextVad]_vars

\* The two converters and the samples they are given.
InitPcm == ControlAtRest /\ AudioAtRest

NextPcm ==
    \/ Convert
    \/ OptimizerConvert

SpecPcm == InitPcm /\ [][NextPcm]_vars

\* A MediaStream, its tracks and its validation.
InitStream ==
    /\ ControlAtRest
    /\ rtp = NewProcessor(16000)
    /\ vad = NewVad
    /\ clock = 1
    /\ wire = <<>>
    /\ pcm = NoConversion
    /\ \E stream \in Streams : strm = [stream |-> stream, isValid |-> "none"]
    /\ qa = NoAnalyzer
    /\ rx = NoResults
    /\ wk = NoAudioProcessor

NextStream ==
    \/ Validate
    \/ TrackEvent

SpecStream == InitStream /\ [][NextStream]_vars

\* ------------------------------------------------------------------ properties
\* The WebSocket objects service i made that are connecting or open.
LiveSockets(i) == { s \in Socks : sock[s].owner = i /\ sock[s].rs \in {"CONNECTING", "OPEN"} }

\* The WebSocket objects service i made, in the socket table sk.
SocketsOf(sk, i) == { s \in Socks : sk[s].owner = i }

\* The worklet managers that deliver frames to some processor.
BoundWorklets == UNION { proc[p].bound : p \in Socks }

\* C1: during one session of a service, from start() until stop() or the
\* give-up, the reconnect() calls made by reconnect-delay timers since the
\* last socket open (or since start()) never number more than
\* maxReconnectAttempts.
C1_AttemptsCapped ==
    \A i \in Svcs :
        (obs.phase = "busy" /\ ~svc[i].gaveUp) => svc[i].sinceOpen <= MaxReconnectAttempts

\* C2: the task in which attemptReconnection() finds the attempts used up calls
\* onError exactly once, and from then on, until a new start(), the service
\* makes no further socket.
C2_GiveUpIsTerminalAndReported ==
    [][\A i \in Svcs :
          /\ (~svc[i].gaveUp /\ svc'[i].gaveUp) => task'.errors = 1
          /\ (svc[i].gaveUp /\ svc'[i].gaveUp) => SocketsOf(sock', i) = SocketsOf(sock, i)]_vars

\* C3: between the return of stop() and the next start(), no task opens a
\* connection or schedules a reconnection, and no socket of the service is
\* connecting or open.
C3_NothingAfterServiceStop ==
    [][(obs.phase = "stopped" /\ obs'.phase = "stopped") =>
          /\ nsock' = nsock
          /\ svc'[1].reconnectTimers <= svc[1].reconnectTimers
          /\ svc'[1].intervals = 0
          /\ LiveSockets(1)' = {}]_vars

\* C4: between the return of the manager's stop() and the consumer's next
\* initialize(), no task is a callback of a timer of the manager, none calls
\* onError, and the manager is not active.
C4_NothingAfterManagerStop ==
    mgr.phase = "stopped" => (task.timer = "none" /\ task.errors = 0 /\ ~mgr.isActive)

\* The state stop() is to leave a service in.
ServiceAtRest(w, i) ==
    /\ w.svc[i].websocket = 0
    /\ w.svc[i].intervals = 0
    /\ w.svc[i].reconnectTimers = 0
    /\ \A s \in Socks : w.sock[s].owner = i => ~w.sock[s].timer
    /\ w.svc[i].audioProcessor = 0
    /\ ~w.svc[i].hdProcessor
    /\ ~w.svc[i].mediaStream
    /\ ~w.svc[i].isConnected

\* The state stop() is to leave the manager in.
ManagerAtRest(w) ==
    /\ w.mgr.transcriptionService = 0
    /\ w.mgr.monitors = {}
    /\ w.mgr.metricsIntervals = 0
    /\ w.mgr.recoveryTimers = 0
    /\ w.mgr.updateTimers = 0
    /\ ~w.mgr.mediaStream
    /\ ~w.mgr.isActive

\* stop() called twice leaves what stop() called once leaves.
ServiceStopTwice(i) == SvcStop(SvcStop(W, i), i) = SvcStop(W, i)
ManagerStopTwice == MgrStop(MgrStop(W)) = MgrStop(W)

\* C5: in every state, stop() of a service and stop() of the manager leave the
\* state a second stop() leaves unchanged, and that state has no socket, no
\* timer, no processor, no stream, and is neither connected nor active.
C5_StopIdempotent ==
    /\ \A i \in Svcs : ServiceStopTwice(i) /\ ServiceAtRest(SvcStop(W, i), i)
    /\ ManagerStopTwice /\ ManagerAtRest(MgrStop(W))

\* C6: once the first initialize() of a manager has returned false, and until
\* the consumer's next call, nothing is running: no socket is connecting or
\* open, no heartbeat, health-monitor or metrics interval is live, no worklet is
\* bound, and the manager is not active.
C6_FailedInitializeLeavesNothing ==
    (mgr.phase = "failed" /\ mgr.nsvc <= 1) =>
        /\ \A i \in Svcs : LiveSockets(i) = {} /\ svc[i].intervals = 0
        /\ mgr.monitors = {}
        /\ mgr.metricsIntervals = 0
        /\ BoundWorklets = {}
        /\ ~mgr.isActive

\* C7: a task in which initialize() returns false has called onError.
C7_FailedInitializeCallsOnError ==
    task.initReturned = "false" => task.errors >= 1

\* C8: once initialize() has been called on an active manager, the manager
\* still has at most one socket connecting or open, one health monitor and one
\* metrics interval.
C8_OneSession ==
    mgr.phase = "layered" =>
        /\ Cardinality(UNION { LiveSockets(i) : i \in Svcs }) <= 1
        /\ Cardinality(mgr.monitors) <= 1
        /\ mgr.metricsIntervals <= 1

\* C9: once the 10 s timer of a connectWebSocket() call has run and the call's
\* socket had not opened by then, the call has resolved false, and start(),
\* when it made the call, has returned false.
C9_ConnectTimeoutResolvesFalse ==
    \A s \in Socks :
        (sock[s].rs # "NONE" /\ ~sock[s].timer /\ sock[s].res # "true") =>
            /\ sock[s].res = "false"
            /\ sock[s].by = "start" => sock[s].ret = "false"

\* C10: a callback of the monitoring interval that finds the session connected
\* (isConnected, and the service's socket open) sends a KeepAlive on that
\* socket, and when it measures more than 30 s since lastHeartbeatTime it
\* forces a reconnect: the socket is closed and a new one is connecting in its
\* place.
C10_HeartbeatKeepsAliveAndForces ==
    [][\A i \in Svcs :
          (task'.hb = i /\ svc[i].isConnected /\ svc[i].websocket # 0
                        /\ sock[svc[i].websocket].rs = "OPEN") =>
              /\ task'.sent
              /\ task'.over =>
                    /\ sock'[svc[i].websocket].rs = "CLOSING"
                    /\ svc'[i].websocket = nsock + 1
                    /\ sock'[nsock + 1].rs = "CONNECTING"]_vars

\* A monitoring callback found the session connected, sent its KeepAlive and
\* forced a reconnect.
C10_Witness ==
    /\ task.hb # 0 /\ task.isConnected /\ task.open /\ task.sent /\ task.forced
    /\ sock[svc[task.hb].websocket].rs = "CONNECTING"

\* The chunk the last task created was accepted: marked speech with a
\* confidence above 0.7.
Accepted(r) ==
    /\ r.created # <<>>
    /\ r.created[1].isSpeech
    /\ FracGt(r.created[1].confidence, 7, 10)

\* C11: every chunk the processor accepts is sent on the socket as one binary
\* frame that holds the PCM data of that chunk and of no other, in the order
\* of production.
C11_AcceptedChunkIsSentAsOneFrame ==
    [][Accepted(rtp') => wire' = Append(wire, rtp'.created[1].data)]_vars

\* C12: a task forwards a chunk for transcription exactly when the chunk it
\* created is marked speech with a confidence above 0.7, and then it forwards
\* that chunk; any other chunk stays in the queue and nothing is forwarded.
C12_ForwardedIffConfidentSpeech ==
    [][rtp'.transcribed = IF Accepted(rtp') THEN rtp'.created ELSE <<>>]_vars

\* C13: after every call of processAudioChunk() the queue holds no chunk whose
\* timestamp is 30 s or more before the current time.
C13_QueueHoldsNoStaleChunk ==
    rtp.created # <<>> =>
        \A k \in 1..Len(rtp.chunkQueue) : clock - rtp.chunkQueue[k].timestamp < maxAge

\* processAudioChunk() ran and removed a chunk that was exactly 30 s old.
C13_Witness ==
    /\ rtp.created # <<>>
    /\ rtp.evicted > 0
    /\ rtp.made = 2
    /\ clock = 1 + chunkDuration + maxAge

\* minSpeechDuration <= duration <= chunkDuration + overlapDuration
DurationInRange(chunk) ==
    /\ FracGe(chunk.duration, minSpeechDuration, 1)
    /\ ~FracGt(chunk.duration, chunkDuration + overlapDuration, 1)

\* C14: every chunk that is created, queued or handed to transcription, the
\* merged chunk of a silence flush included, has a duration from
\* minSpeechDuration to chunkDuration + overlapDuration.
C14_DurationWithinBounds ==
    /\ \A k \in 1..Len(rtp.chunkQueue) : DurationInRange(rtp.chunkQueue[k])
    /\ \A k \in 1..Len(rtp.transcribed) : DurationInRange(rtp.transcribed[k])

\* C15: the duration of a created chunk is its number of samples divided by
\* the sample rate, times 1000; 8000 samples at 16000 Hz are exactly 500 ms.
C15_DurationIsSamplesOverRate ==
    rtp.created # <<>> =>
        LET chunk == rtp.created[1] IN
        /\ chunk.duration = Frac(chunk.samples * 1000, rtp.sampleRate)
        /\ (chunk.samples = 8000 /\ rtp.sampleRate = 16000) => chunk.duration = Frac(500, 1)

\* A chunk of 8000 samples was created at 16000 Hz, and lasts 500 ms.
C15_Witness ==
    /\ rtp.created # <<>>
    /\ rtp.created[1].samples = 8000
    /\ rtp.sampleRate = 16000
    /\ rtp.created[1].duration = Frac(500, 1)

\* The last k elements of a sequence, all of them if it has fewer.
LastOf(seq, k) == SubSeq(seq, (IF Len(seq) > k THEN Len(seq) - k ELSE 0) + 1, Len(seq))

\* A smallest element of a sequence of numbers that is not empty.
Lowest(seq) == CHOOSE e \in { seq[k] : k \in 1..Len(seq) } : \A k \in 1..Len(seq) : e <= seq[k]

C17_RoundTripWithinOneLsb ==
    (pcm.by # "none" /\ Abs(pcm.x.n) <= pcm.x.d) =>
        Abs(pcm.out * pcm.x.d - 32768 * pcm.x.n) <= pcm.x.d

\* The stream has an audio track whose readyState is "live".
HasLiveAudioTrack(stream) ==
    /\ ~stream.null
    /\ \E k \in 1..Len(stream.tracks) :
          stream.tracks[k].kind = "audio" /\ stream.tracks[k].readyState = "live"

\* C18: validateAudioStream() returns true, and checkHealth() finds the stream
\* healthy, for every stream with an audio track whose readyState is "live",
\* whatever that track's enabled and muted flags and whatever the other tracks.
C18_LiveAudioTrackIsHealthy ==
    [][/\ (strm'.stream = strm.stream /\ HasLiveAudioTrack(strm.stream)) =>
             strm'.isValid = "true"
       /\ HasLiveAudioTrack(strm'.stream) => IsHealthy(strm'.stream)]_vars

\* A stream was found valid whose only live audio track is disabled and
\* muted, next to a track that has ended.
C18_Witness ==
    /\ strm.isValid = "true"
    /\ Len(strm.stream.tracks) = 2
    /\ \E k \in 1..2 :
          /\ strm.stream.tracks[k] = [ kind |-> "audio", readyState |-> "live",
                                       enabled |-> FALSE, muted |-> TRUE ]
          /\ strm.stream.tracks[3 - k].readyState = "ended"

\* C19: a health check that finds the stream unhealthy fewer than 3 times in a
\* row calls no onDisconnect, and one that finds it healthy calls none and
\* sets the count of consecutive failures to zero.
C19_DisconnectOnlyAfterThreeFailures ==
    [][task'.timer = "health" =>
          LET m == task'.monitor IN
          /\ task'.healthy =>
                /\ mgr'.consecutiveFailures[m] = 0
                /\ task'.errors = 0
                /\ mgr'.recoveryTimers = mgr.recoveryTimers
          /\ (~task'.healthy /\ mgr.consecutiveFailures[m] + 1 < 3) =>
                /\ mgr'.consecutiveFailures[m] = mgr.consecutiveFailures[m] + 1
                /\ task'.errors = 0
                /\ mgr'.recoveryTimers = mgr.recoveryTimers]_vars

\* The third unhealthy check in a row has just called onDisconnect.
C19_Witness ==
    /\ task.timer = "health"
    /\ ~task.healthy
    /\ mgr.consecutiveFailures[task.monitor] = 3
    /\ task.errors = 1
    /\ mgr.recoveryTimers = 1

\* C20: a health check that fails in an episode whose third failure has
\* already started the recovery starts no further recovery.
C20_OneRecoveryPerEpisode ==
    [][(task'.timer = "health" /\ ~task'.healthy
           /\ mgr.consecutiveFailures[task'.monitor] >= 3) =>
          /\ mgr'.recoveryTimers = mgr.recoveryTimers
          /\ task'.errors = 0]_vars

\* C21: when the manager's stream recovery fails, the whole session is
\* stopped (manager not active, no service and socket, no interval or timer,
\* no stream held) and the error is reported through onError.
C21_FailedRecoveryStopsSession ==
    [][task'.recovery = "failed" =>
          /\ task'.errors > 0
          /\ ManagerAtRest([mgr |-> mgr'])
          /\ \A i \in Svcs : ServiceAtRest([svc |-> svc', sock |-> sock', proc |-> proc'], i)]_vars

\* The time since which the chunks at the end of the list are all non-speech:
\* the timestamp of the first chunk of the longest non-speech tail, `now` when
\* the last chunk is speech.
RECURSIVE QuietSince(_, _)
QuietSince(chunks, now) ==
    IF chunks = <<>> THEN now
    ELSE LET last == chunks[Len(chunks)]
         IN  IF last.isSpeech THEN now
             ELSE QuietSince(SubSeq(chunks, 1, Len(chunks) - 1), last.timestamp)

\* C28: the merged flush of the queued speech chunks happens only when
\* non-speech chunks have arrived continuously for more than 2 s: the chunk
\* that triggers it is non-speech and the unbroken run of non-speech chunks
\* that it ends began more than 2 s before it.
C28_FlushOnlyAfterContinuousSilence ==
    [][rtp'.flushed =>
          LET chunks == rtp.chunkQueue \o rtp'.created
          IN  /\ ~rtp'.created[1].isSpeech
              /\ clock' - QuietSince(chunks, clock') > SilenceFlushMs]_vars

\* C29: when a chunk is emitted, the accumulator keeps the trailing
\* overlapDuration of samples of that chunk to seed the next one.
C29_AccumulatorKeepsOverlap ==
    [][rtp'.created # <<>> =>
          LET overlap == (overlapDuration * rtp.sampleRate) \div 1000
              kept == IF rtp'.created[1].samples < overlap
                      THEN rtp'.created[1].samples ELSE overlap
          IN  Length(rtp'.audioBuffer) = kept]_vars

\* C24: what the processor does with a frame, the chunks it forwards for
\* transcription included, is the same whatever the quality analyzer of the
\* manager is (absent, failed to initialize, ready) and whatever score it gave:
\* every frame step is the step of some frame for every analyzer state at once.
C24_ForwardingIgnoresAnalyzer ==
    [][rtp'.frames = rtp.frames + 1 =>
          \E dt \in Delays, n \in FrameSizes, amp \in Levels :
              /\ clock' = clock + dt
              /\ \A state \in AnalyzerStates, score \in Scores :
                    LET r == ProcessAudioFrame(
                                 [A EXCEPT !.rtp.frames = @ + 1,
                                           !.qa = [analyzer |-> state, qualityScore |-> score]],
                                 [samples |-> n, amp |-> amp], clock')
                    IN  /\ r.rtp = rtp'
                        /\ r.vad = vad']_vars

\* A chunk is forwarded while the analyzer reports a low score.
C24_Witness ==
    /\ qa.analyzer = "ready"
    /\ qa.qualityScore = 35
    /\ Accepted(rtp)
    /\ rtp.transcribed = rtp.created

IsPrefix(s, t) == Len(s) <= Len(t) /\ SubSeq(t, 1, Len(s)) = s

\* The text of the result a handler was given, as the handlers read it.
TextOf(msg) == Trim(msg.alternatives[1].transcript)

\* C22: on the optimizer's and on the page's path, an interim result replaces
\* the pending interim text and leaves the stable transcript as it was; a
\* final result is appended once to the stable transcript and clears the
\* pending text; the stable transcript of before is a prefix of the one after.
C22_InterimReplacesFinalAppends ==
    [][rx'.n = rx.n + 1 =>
          /\ rx'.path = "optimizer" =>
                IF rx'.msg.is_final
                THEN /\ \E sep \in {<<>>, <<" ">>} :
                           rx'.stableTranscript =
                               rx.stableTranscript \o TextOf(rx'.msg) \o sep
                     /\ rx'.interimTranscript = <<>>
                ELSE /\ rx'.interimTranscript = TextOf(rx'.msg)
                     /\ rx'.stableTranscript = rx.stableTranscript
          /\ rx'.path = "page" =>
                IF rx'.msg.is_final
                THEN /\ rx'.transcriptSegments =
                            Append(rx.transcriptSegments, TextOf(rx'.msg))
                     /\ rx'.pageInterimTranscript = <<>>
                ELSE /\ rx'.pageInterimTranscript = TextOf(rx'.msg)
                     /\ rx'.transcriptSegments = rx.transcriptSegments
          /\ IsPrefix(rx.stableTranscript, rx'.stableTranscript)
          /\ IsPrefix(rx.transcriptSegments, rx'.transcriptSegments)]_vars

\* C26: a message of the socket calls the transcription callback exactly when
\* it parses, has type Results and its channel has an alternative, once and
\* with the text and confidence of the first alternative; a message never
\* changes isConnected or reconnectAttempts of a service.
C26_OnlyResultsReachTheCallback ==
    [][(rx'.n = rx.n + 1 /\ rx'.path = "service") =>
          LET msg == rx'.msg
          IN  /\ IF msg.parses /\ msg.type = "Results" /\ msg.channel
                    /\ Len(msg.alternatives) > 0
                 THEN /\ Len(rx'.delivered) = 1
                      /\ rx'.delivered[1].text = msg.alternatives[1].transcript
                      /\ msg.alternatives[1].confidence # 0 =>
                            rx'.delivered[1].confidence = msg.alternatives[1].confidence
                 ELSE rx'.delivered = <<>>
              /\ \A i \in Svcs :
                    /\ svc'[i].isConnected = svc[i].isConnected
                    /\ svc'[i].reconnectAttempts = svc[i].reconnectAttempts]_vars

\* A Results message with two alternatives was delivered once, on a connected
\* service, after another message.
C26_Witness ==
    /\ rx.path = "service"
    /\ rx.n > 1
    /\ Len(rx.msg.alternatives) = 2
    /\ Len(rx.delivered) = 1
    /\ rx.delivered[1].text = <<" ", "b", " ">>
    /\ svc[1].isConnected

\* C27: the finality a handler reports for a result (the isFinal of the
\* TranscriptionResult of the service, the isFinal the optimizer and the
\* integration return, the branch the page takes) is the is_final of the
\* message it was given.
C27_IsFinalIsTheBackendFlag ==
    rx.isFinal # "none" => rx.isFinal = Reported(rx.msg.is_final)

RECURSIVE Flatten(_)
Flatten(frames) == IF frames = <<>> THEN <<>> ELSE Head(frames) \o Flatten(Tail(frames))

\* The samples pending in the accumulator.
Pending(k) == SubSeq(k.sampleBuffer, 1, k.bufferIndex)

\* C25: every frame the worklet posts has exactly bufferSize samples, and
\* the frames a process() call posts followed by the samples then pending are
\* the samples that were pending before followed by the mono samples of the
\* block, in order: with the mono stream 1, 2, 3, ... they are the samples
\* sent + 1 .. fed. By induction over the calls, all posted frames followed by
\* the pending samples are the mono input stream.
C25_FramesAreTheMonoStream ==
    [][wk'.calls = wk.calls + 1 =>
          /\ \A f \in 1..Len(wk'.posted) : Len(wk'.posted[f]) = bufferSize
          /\ Pending(wk) = [i \in 1..(wk.fed - wk.sent) |-> wk.sent + i]
          /\ Flatten(wk'.posted) \o Pending(wk') =
                 [i \in 1..(wk'.fed - wk.sent) |-> wk.sent + i]]_vars

\* A stereo block of 9000 samples arrived with samples pending: two frames
\* were posted and leftover samples are pending.
C25_Witness ==
    /\ wk.calls > 1
    /\ Len(wk.posted) = 2
    /\ wk.bufferIndex > 0
    /\ wk.fed > 9000

\* C23: no processor stops or removes, on its own account, the tracks of the
\* stream the manager holds while the manager's session is active; only the
\* manager's stop() releases them.
C23_OnlyManagerReleasesStream ==
    [][task'.releasedBy = "processor" => ~mgr'.isActive]_vars

\* C30: a start() whose HD chain cannot be built goes on to connect with the
\* original stream (unless new WebSocket() throws), and when its processor
\* has come up on that stream it returns true with monitoring started.
C30_HdFailureIsPassThrough ==
    [][/\ (task'.hd = "original" /\ ~task'.threw) =>
             /\ nsock' = nsock + 1
             /\ sock'[nsock'].by = "start"
             /\ sock'[nsock'].res = "pending"
             /\ sock'[nsock'].processedStream = "original"
       /\ \A s \in Socks :
             (/\ sock[s].by = "start"
              /\ sock[s].processedStream = "original"
              /\ sock[s].pc = "processor"
              /\ sock'[s].pc = "done"
              /\ proc'[sock[s].p].isProcessing) =>
                 /\ sock'[s].ret = "true"
                 /\ svc'[sock[s].owner].connectionCheckInterval]_vars

\* A start() whose HD chain failed returned true: the service is connected
\* and its processor runs on the original stream.
C30_Witness ==
    \E s \in Socks :
        /\ sock[s].by = "start"
        /\ sock[s].processedStream = "original"
        /\ sock[s].ret = "true"
        /\ obs.startResult = "true"
        /\ svc[1].isConnected
        /\ svc[1].audioProcessor = s
        /\ proc[s].isProcessing
        /\ proc[s].mediaStream = "original"

\* C31: when the close event of a socket that reconnect() closed arrives while
\* the session is connected on the socket that replaced it (isConnected, the
\* service's socket open), it starts no reconnection cycle: the session stays
\* connected on that socket and no reconnect-delay timer is set.
C31_OldSocketCloseStartsNoCycle ==
    [][\A s \in Socks :
          (/\ sock[s].rs = "CLOSING" /\ sock'[s].rs = "CLOSED"
           /\ svc[sock[s].owner].websocket \notin {0, s}
           /\ sock[svc[sock[s].owner].websocket].rs = "OPEN"
           /\ svc[sock[s].owner].isConnected) =>
              /\ svc'[sock[s].owner].isConnected
              /\ svc'[sock[s].owner].websocket = svc[sock[s].owner].websocket
              /\ svc'[sock[s].owner].reconnectTimers = svc[sock[s].owner].reconnectTimers]_vars

\* C32: after every task, isConnected of a service is true exactly when the
\* socket it holds is open; and the open or close event of a socket the service
\* no longer holds changes neither isConnected, nor reconnectAttempts, nor the
\* connection state reported to the manager or the client.
C32_IsConnectedIffCurrentSocketOpen ==
    [][/\ \A i \in Svcs :
            svc'[i].isConnected <=>
                (svc'[i].websocket # 0 /\ sock'[svc'[i].websocket].rs = "OPEN")
       /\ \A s \in Socks :
            (/\ sock[s].owner # 0
             /\ sock'[s].rs # sock[s].rs /\ sock'[s].rs \in {"OPEN", "CLOSED"}
             /\ svc[sock[s].owner].websocket # s) =>
                /\ svc'[sock[s].owner].isConnected = svc[sock[s].owner].isConnected
                /\ svc'[sock[s].owner].reconnectAttempts = svc[sock[s].owner].reconnectAttempts
                /\ mgr'.connectionStatus = mgr.connectionStatus
                /\ obs'.connected = obs.connected]_vars

\* C33: the promise of every connectWebSocket() call is settled in the end:
\* a call that is pending leads to that call resolved, true or false.
C33_EveryConnectResolves ==
    \A s \in Socks : (sock[s].res = "pending") ~> (sock[s].res \in {"true", "false"})

\* C34: a callback of the monitoring interval that runs on a connected session
\* whose socket is open, and on which an inbound message was handled since the
\* callback before the last (so less than 30 s ago), forces no reconnect.
C34_TrafficKeepsConnectionAlive ==
    [][\A i \in Svcs :
          (/\ task'.hb = i
           /\ svc[i].isConnected
           /\ svc[i].websocket # 0 /\ sock[svc[i].websocket].rs = "OPEN"
           /\ svc[i].sinceMessage <= 1) =>
              ~task'.forced]_vars

\* C35: the samples of a chunk are handed on for transcription at most once:
\* no chunk a task forwards, alone or merged by a silence flush, holds the
\* samples of a chunk that an earlier task forwarded.
C35_ChunkForwardedAtMostOnce ==
    [][\A k \in 1..Len(rtp'.transcribed) :
          \A j \in 1..Len(rtp'.transcribed[k].data) :
              rtp'.transcribed[k].data[j] \notin rtp.forwarded]_vars

\* C36: at any time at most one worklet is bound to a
\* RealtimeTranscriptionProcessor and delivers frames to its processAudioFrame().
C36_OneBoundWorkletPerProcessor ==
    \A p \in Socks : Cardinality(proc[p].bound) <= 1

\* C37: once a reconnect() of the manager has restarted its service on a new
\* stream, every health check of the active manager is made by a monitor that
\* watches the stream this.mediaStream now is.
C37_MonitorWatchesCurrentStream ==
    [][\A m \in Svcs :
          (/\ task'.timer = "health" /\ task'.monitor = m
           /\ mgr.recovered /\ mgr.isActive /\ mgr.mediaStream) =>
              m \in mgr.current]_vars

\* C38: for every sample and every dither either converter can draw, the
\* value stored in the Int16Array is the rounded value itself, which lies in
\* -32768..32767, and a sample at or above full scale is stored positive.
C38_PcmNeverWraps ==
    pcm.by # "none" =>
        LET dithered ==
                IF pcm.by = "convertToPCM"
                THEN ApplyDithering(Clamp(pcm.x), pcm.random)
                ELSE FracPlus(Clamp(pcm.x),
                              Frac(pcm.random.n * 2 - pcm.random.d, pcm.random.d * 32768))
            rounded == Round(FracTimes(dithered, 32767))
        IN  /\ rounded \in -32768..32767
            /\ pcm.out = rounded
            /\ pcm.x.n >= pcm.x.d => pcm.out > 0

====
